---- MODULE Spec2Model ----
(***************************************************************************)
(* Model of the openfloor record types (dialog_event.py, manifest.py,      *)
(* envelope.py) and of their serialization kernel (json_serializable.py):  *)
(* construction with validation, projection (dict(x) through __iter__),    *)
(* reconstruction (from_dict) and the JSON text layer.                     *)
(*                                                                         *)
(* Python values are tagged records, so that a field can hold any value,   *)
(* as in the dynamically typed source.  A dict is an insertion-ordered     *)
(* sequence of <<key, value>> pairs.  A raised exception is a value too:   *)
(* an operation returns either its result or the exception it raised.      *)
(***************************************************************************)
EXTENDS Integers, Sequences, FiniteSets, TLC

VARIABLES
    pc,      \* how far the run has got
    cls,     \* the record type the run is about
    how,     \* "init": x was built by the constructor; "from_dict": by from_dict
    arg,     \* the keyword arguments / the mapping as the caller supplied them
    data,    \* the caller's mapping as the first call left it
    x,       \* the result of the first call: a record or the exception raised
    p,       \* dict(x)
    y,       \* the record rebuilt from p (from_dict) or from j (from_json)
    ydata,   \* the mapping given to that second call, as the call left it
    q,       \* dict(y)
    z,       \* the result of making the first call a second time
    j,       \* x.to_json()
    clock,   \* calls made so far that read the clock (datetime.now())
    uuids,   \* values uuid.uuid4() has handed out so far
    prm,     \* a Parameters under edit
    calls,   \* the calls made on prm so far, each with what it returned
    eq       \* the last comparison: the record x or prm was compared with, and
             \* what == returned

vars == <<pc, cls, how, arg, data, x, p, y, ydata, q, z, j, clock, uuids, prm, calls,
          eq>>

(***************************************************************************)
(* Python values                                                           *)
(***************************************************************************)
None == [t |-> "None"]
Str(s) == [t |-> "str", v |-> s]
Num(n) == [t |-> "num", v |-> n]
Bool(b) == [t |-> "bool", v |-> b]
List(s) == [t |-> "list", v |-> s]
Dict(pairs) == [t |-> "dict", v |-> pairs]
DateTime(d) == [t |-> "datetime", v |-> d]
Obj(c, fields) == [t |-> "obj", cls |-> c, f |-> fields]
\* a set, with its items in iteration order
Set(s) == [t |-> "set", v |-> s]
\* an instance of a class that defines neither __iter__ nor __json__
Object(c) == [t |-> "object", cls |-> c]
Raise(exc, msg) == [t |-> "exc", v |-> exc, msg |-> msg]

IsExc(v) == v.t = "exc"
IsObj(v, c) == v.t = "obj" /\ v.cls = c

\* obj.__class__.__name__
TypeName(v) ==
    CASE v.t \in {"obj", "object"} -> v.cls
      [] v.t = "None" -> "NoneType"
      [] OTHER -> v.t

\* Python truthiness (bool(v)) of the values a field test such as
\* "if self.links:" meets.  A Parameters is judged by __len__ of its _data.
Truthy(v) ==
    CASE v.t = "None" -> FALSE
      [] v.t = "bool" -> v.v
      [] v.t = "num" -> v.v # 0
      [] v.t = "str" -> v.v # ""
      [] v.t \in {"list", "dict"} -> Len(v.v) > 0
      [] v.t = "obj" /\ v.cls = "Parameters" -> Len(v.f._data.v) > 0
      [] OTHER -> TRUE

Keys(d) == {d.v[i][1] : i \in 1..Len(d.v)}
KeySeq(d) == [i \in 1..Len(d.v) |-> d.v[i][1]]
HasKey(d, k) == \E i \in 1..Len(d.v) : d.v[i][1] = k
Get(d, k) == d.v[CHOOSE i \in 1..Len(d.v) : d.v[i][1] = k][2]
\* d[k] = val: an existing key keeps its position, a new key goes last.
SetItem(d, k, val) ==
    IF HasKey(d, k)
    THEN Dict([i \in 1..Len(d.v) |-> IF d.v[i][1] = k THEN <<k, val>> ELSE d.v[i]])
    ELSE Dict(Append(d.v, <<k, val>>))

Min(S) == CHOOSE m \in S : \A n \in S : m <= n

(***************************************************************************)
(* The constructor a @dataclass generates, called with keyword arguments   *)
(* unpacked from a mapping.  Unknown keyword                               *)
(* and missing required argument raise TypeError; a field not supplied     *)
(* takes its declared default; no field is type-checked.                   *)
(***************************************************************************)
SeqToSet(s) == {s[i] : i \in 1..Len(s)}

dataclass_init(c, fields, required, defaults, kwargs) ==
    IF kwargs.t # "dict"
    THEN Raise("TypeError", "argument after ** must be a mapping")
    ELSE IF \E k \in Keys(kwargs) : k \notin SeqToSet(fields)
    THEN Raise("TypeError", "unexpected keyword argument")
    ELSE IF \E k \in required : ~HasKey(kwargs, k)
    THEN Raise("TypeError", "missing required positional argument")
    ELSE Obj(c, [n \in SeqToSet(fields) |->
                    IF HasKey(kwargs, n) THEN Get(kwargs, n) ELSE defaults[n]])

(***************************************************************************)
(* datetime.isoformat / datetime.fromisoformat.  A datetime is identified  *)
(* by its canonical rendering; fromisoformat also accepts other spellings  *)
(* of the same instant and rejects everything else with ValueError.        *)
(***************************************************************************)
IsoSpellings ==
    { <<"2024-05-01T00:00:00", "2024-05-01T00:00:00">>,
      <<"2024-05-01", "2024-05-01T00:00:00">>,
      <<"2024-05-01T10:30:00", "2024-05-01T10:30:00">>,
      <<"2024-05-01T10:30:00Z", "2024-05-01T10:30:00+00:00">>,
      <<"2024-05-01T10:30:00+00:00", "2024-05-01T10:30:00+00:00">> }

fromisoformat(s) ==
    IF \E e \in IsoSpellings : e[1] = s
    THEN DateTime((CHOOSE e \in IsoSpellings : e[1] = s)[2])
    ELSE Raise("ValueError", "Invalid isoformat string")

\* value.isoformat(): only a datetime has the method.
isoformat(v) ==
    IF v.t = "datetime" THEN Str(v.v)
    ELSE Raise("AttributeError", "object has no attribute 'isoformat'")

(***************************************************************************)
(* Projection helpers.  An __iter__ generator yields pairs one at a time;  *)
(* dict(x) collects them and fails with the first exception raised while   *)
(* a pair is computed.  Emit is one candidate pair: on tells whether the   *)
(* generator's "if" lets it through.                                       *)
(***************************************************************************)
Emit(on, k, val) == [on |-> on, k |-> k, val |-> val]

Collect(cands) ==
    LET live == SelectSeq(cands, LAMBDA c : c.on)
        bad == {i \in 1..Len(live) : IsExc(live[i].val)}
    IN  IF bad # {} THEN live[Min(bad)].val
        ELSE Dict([i \in 1..Len(live) |-> <<live[i].k, live[i].val>>])

\* [f(item) for item in v] for a per-item function that may raise.
MapList(F(_), v) ==
    IF v.t # "list" THEN Raise("TypeError", "object is not iterable")
    ELSE LET r == [i \in 1..Len(v.v) |-> F(v.v[i])]
             bad == {i \in 1..Len(r) : IsExc(r[i])}
         IN  IF bad # {} THEN r[Min(bad)] ELSE List(r)

RECURSIVE dict_of(_)

(***************************************************************************)
(* reconstruction helpers.  from_dict writes into the mapping it is given  *)
(* (data['span'] = Span.from_dict(data['span'])), so every from_dict       *)
(* returns both its result and the mapping as the call left it.            *)
(***************************************************************************)
Ret(res, d) == [res |-> res, data |-> d]

\* C.from_dict is reached through the dispatch from_dict(c, d, env), defined
\* once every record type is.
RECURSIVE from_dict(_, _, _)

\* the outcome of a list comprehension over from_dict calls: r[i] is what
\* the call on item i returned.  Items are reconstructed in order, the first
\* exception ends the comprehension; the items visited so far keep what
\* from_dict wrote into them.
Gather(r, v) ==
    LET bad == {i \in 1..Len(r) : IsExc(r[i].res)}
    IN  IF bad = {}
        THEN Ret(List([i \in 1..Len(r) |-> r[i].res]),
                 List([i \in 1..Len(r) |-> r[i].data]))
        ELSE Ret(r[Min(bad)].res,
                 List([i \in 1..Len(r) |->
                         IF i <= Min(bad) THEN r[i].data ELSE v.v[i]]))

\* A from_dict body is a sequence of statements over the caller's mapping.
\* Begin, Convert and Return thread the running outcome st = [res, data]:
\* res is None while no statement has raised and the exception afterwards,
\* data is the mapping as the statements so far left it.
\* The classes that derive from json_serializable.JsonSerializable; the
\* classes of dialog_event.py derive from that module's own JsonSerializable.
JsonSerializable == {"Identification", "SupportedLayers", "Capability", "Manifest",
                     "Schema", "Conversant", "Conversation", "Sender", "To",
                     "Parameters", "Event", "Envelope"}

\* "k in data" and cls(**data) need a mapping.  A dataclass record of
\* json_serializable.py answers "in" through __contains__, which reads the
\* _data attribute its generated __init__ never set; any other value that is
\* not a mapping is a TypeError, from "in" or from the ** unpacking.
Begin(d) ==
    IF d.t = "dict" THEN Ret(None, d)
    ELSE IF d.t = "obj" /\ d.cls \in JsonSerializable \ {"Parameters"}
    THEN Ret(Raise("AttributeError", "object has no attribute '_data'"), d)
    ELSE Ret(Raise("TypeError", "argument is not a mapping"), d)

\* data[k] = r, where r = [res, data] is the outcome of the conversion
Stored_keepRaw(d, k, r) ==
    IF IsExc(r.res) THEN Ret(None, d)
    ELSE Ret(None, SetItem(d, k, r.res))

Stored(d, k, r) ==
    IF IsExc(r.res) THEN Ret(r.res, SetItem(d, k, r.data))
    ELSE Ret(None, SetItem(d, k, r.res))

\* if k in data: data[k] = F(data[k])
Convert(st, k, F(_)) ==
    IF IsExc(st.res) \/ ~HasKey(st.data, k) THEN st
    ELSE Stored(st.data, k, F(Get(st.data, k)))

\* return cls(data)
Return(st, New(_)) ==
    IF IsExc(st.res) THEN st ELSE Ret(New(st.data), st.data)

\* [C.from_dict(item) for item in v]
MapFromDict(c, v, env) ==
    IF v.t # "list" THEN Ret(Raise("TypeError", "object is not iterable"), v)
    ELSE Gather([i \in 1..Len(v.v) |-> from_dict(c, v.v[i], env)], v)

\* [[C.from_dict(item) for item in alt] for alt in v]
MapFromDict2(c, v, env) ==
    IF v.t # "list" THEN Ret(Raise("TypeError", "object is not iterable"), v)
    ELSE Gather([i \in 1..Len(v.v) |-> MapFromDict(c, v.v[i], env)], v)

(***************************************************************************)
(* dialog_event.py: Span                                                   *)
(***************************************************************************)
Span_fields == <<"startTime", "startOffset", "endTime", "endOffset">>

\* startTime's default_factory is datetime.now().isoformat(); env.now is
\* the clock reading of the call.
Span_defaults(env) ==
    [startTime |-> Str(env.now), startOffset |-> None,
     endTime |-> None, endOffset |-> None]

\* Span_post_init without the check of the end forms.
Span_post_init_startOnly(self) ==
    IF self.f.startTime # None /\ self.f.startOffset # None
    THEN Raise("ValueError", "Cannot specify both startTime and startOffset")
    ELSE IF self.f.startTime = None /\ self.f.startOffset = None
    THEN Raise("ValueError", "Must specify either startTime or startOffset")
    ELSE self

Span_post_init(self) ==
    IF self.f.startTime # None /\ self.f.startOffset # None
    THEN Raise("ValueError", "Cannot specify both startTime and startOffset")
    ELSE IF self.f.endTime # None /\ self.f.endOffset # None
    THEN Raise("ValueError", "Cannot specify both endTime and endOffset")
    ELSE IF self.f.startTime = None /\ self.f.startOffset = None
    THEN Raise("ValueError", "Must specify either startTime or startOffset")
    ELSE self

Span_new(kwargs, env) ==
    LET self == dataclass_init("Span", Span_fields, {}, Span_defaults(env), kwargs)
    IN  IF IsExc(self) THEN self ELSE Span_post_init(self)

Span_iter(self) ==
    Collect(<< Emit(self.f.startTime # None, "startTime", self.f.startTime),
               Emit(self.f.startOffset # None, "startOffset", self.f.startOffset),
               Emit(self.f.endTime # None, "endTime", isoformat(self.f.endTime)),
               Emit(self.f.endOffset # None, "endOffset", self.f.endOffset) >>)

Span_from_dict(d, env) ==
    Return(Convert(Begin(d), "endTime",
                   LAMBDA v : IF v.t = "str" THEN Ret(fromisoformat(v.v), v)
                              ELSE Ret(v, v)),
           LAMBDA kw : Span_new(kw, env))

(***************************************************************************)
(* dialog_event.py: Token                                                  *)
(***************************************************************************)
Token_fields == <<"value", "valueUrl", "span", "confidence", "links">>

Token_defaults ==
    [value |-> None, valueUrl |-> None, span |-> None,
     confidence |-> None, links |-> List(<<>>)]

\* confidence is a number in hundredths: 0 <= confidence <= 1 reads
\* 0 <= v <= 100.
\* Token_post_init with the open interval 0 < confidence < 1.
Token_post_init_open(self) ==
    IF self.f.value = None /\ self.f.valueUrl = None
    THEN Raise("ValueError", "Must specify either value or valueUrl")
    ELSE IF self.f.value # None /\ self.f.valueUrl # None
    THEN Raise("ValueError", "Cannot specify both value and valueUrl")
    ELSE IF self.f.confidence # None
            /\ ~(0 < self.f.confidence.v /\ self.f.confidence.v < 100)
    THEN Raise("ValueError", "Confidence must be between 0 and 1")
    ELSE self

Token_post_init(self) ==
    IF self.f.value = None /\ self.f.valueUrl = None
    THEN Raise("ValueError", "Must specify either value or valueUrl")
    ELSE IF self.f.value # None /\ self.f.valueUrl # None
    THEN Raise("ValueError", "Cannot specify both value and valueUrl")
    ELSE IF self.f.confidence # None
            /\ ~(0 <= self.f.confidence.v /\ self.f.confidence.v <= 100)
    THEN Raise("ValueError", "Confidence must be between 0 and 1")
    ELSE self

Token_new(kwargs, env) ==
    LET self == dataclass_init("Token", Token_fields, {}, Token_defaults, kwargs)
    IN  IF IsExc(self) THEN self ELSE Token_post_init(self)

\* Token_iter testing confidence for truth instead of "is not None".
Token_iter_truthy(self) ==
    Collect(<< Emit(self.f.value # None, "value", self.f.value),
               Emit(self.f.valueUrl # None, "valueUrl", self.f.valueUrl),
               Emit(self.f.span # None, "span", dict_of(self.f.span)),
               Emit(Truthy(self.f.confidence), "confidence", self.f.confidence),
               Emit(Truthy(self.f.links), "links", self.f.links) >>)

Token_iter(self) ==
    Collect(<< Emit(self.f.value # None, "value", self.f.value),
               Emit(self.f.valueUrl # None, "valueUrl", self.f.valueUrl),
               Emit(self.f.span # None, "span", dict_of(self.f.span)),
               Emit(self.f.confidence # None, "confidence", self.f.confidence),
               Emit(Truthy(self.f.links), "links", self.f.links) >>)

Token_from_dict(d, env) ==
    Return(Convert(Begin(d), "span", LAMBDA v : from_dict("Span", v, env)),
           LAMBDA kw : Token_new(kw, env))

\* {name: f(value) for name, value in v.items()}: only a dict has items().
MapItems(F(_), v) ==
    IF v.t # "dict" THEN Raise("AttributeError", "object has no attribute 'items'")
    ELSE LET r == [i \in 1..Len(v.v) |-> F(v.v[i][2])]
             bad == {i \in 1..Len(r) : IsExc(r[i])}
         IN  IF bad # {} THEN r[Min(bad)]
             ELSE Dict([i \in 1..Len(r) |-> <<v.v[i][1], r[i]>>])

\* {name: C.from_dict(value) for name, value in v.items()}
MapItemsFromDict(c, v, env) ==
    IF v.t # "dict"
    THEN Ret(Raise("AttributeError", "object has no attribute 'items'"), v)
    ELSE LET r == [i \in 1..Len(v.v) |-> from_dict(c, v.v[i][2], env)]
             bad == {i \in 1..Len(r) : IsExc(r[i].res)}
         IN  IF bad = {}
             THEN Ret(Dict([i \in 1..Len(r) |-> <<v.v[i][1], r[i].res>>]),
                      Dict([i \in 1..Len(r) |-> <<v.v[i][1], r[i].data>>]))
             ELSE Ret(r[Min(bad)].res,
                      Dict([i \in 1..Len(r) |->
                              IF i <= Min(bad) THEN <<v.v[i][1], r[i].data>>
                              ELSE v.v[i]]))

(***************************************************************************)
(* dialog_event.py: Feature                                                *)
(***************************************************************************)
Feature_fields ==
    <<"mimeType", "tokens", "alternates", "lang", "encoding", "tokenSchema">>

Feature_defaults ==
    [mimeType |-> Str("text/plain"), tokens |-> List(<<>>),
     alternates |-> List(<<>>), lang |-> None, encoding |-> None,
     tokenSchema |-> None]

Feature_encodings == {Str("ISO-8859-1"), Str("UTF-8")}

\* Feature_post_init with a third accepted encoding.
Feature_post_init_utf16(self) ==
    IF self.f.encoding # None
       /\ self.f.encoding \notin Feature_encodings \cup {Str("UTF-16")}
    THEN Raise("ValueError", "Encoding must be either 'ISO-8859-1' or 'UTF-8'")
    ELSE self

Feature_post_init(self) ==
    IF self.f.encoding # None /\ self.f.encoding \notin Feature_encodings
    THEN Raise("ValueError", "Encoding must be either 'ISO-8859-1' or 'UTF-8'")
    ELSE self

Feature_new(kwargs, env) ==
    LET self == dataclass_init("Feature", Feature_fields, {}, Feature_defaults, kwargs)
    IN  IF IsExc(self) THEN self ELSE Feature_post_init(self)

Feature_iter(self) ==
    Collect(<< Emit(TRUE, "mimeType", self.f.mimeType),
               Emit(TRUE, "tokens", MapList(dict_of, self.f.tokens)),
               Emit(Truthy(self.f.alternates), "alternates",
                    MapList(LAMBDA alt : MapList(dict_of, alt), self.f.alternates)),
               Emit(self.f.lang # None, "lang", self.f.lang),
               Emit(self.f.encoding # None, "encoding", self.f.encoding),
               Emit(self.f.tokenSchema # None, "tokenSchema", self.f.tokenSchema) >>)

Feature_from_dict(d, env) ==
    Return(Convert(Convert(Begin(d),
                   "tokens", LAMBDA v : MapFromDict("Token", v, env)),
                   "alternates", LAMBDA v : MapFromDict2("Token", v, env)),
           LAMBDA kw : Feature_new(kw, env))

(***************************************************************************)
(* dialog_event.py: DialogEvent                                            *)
(***************************************************************************)
DialogEvent_fields ==
    <<"id", "speakerUri", "span", "features", "previousId", "context">>

DialogEvent_required == {"id", "speakerUri", "span"}

DialogEvent_defaults ==
    [id |-> None, speakerUri |-> None, span |-> None, features |-> Dict(<<>>),
     previousId |-> None, context |-> None]

\* DialogEvent_post_init testing features for None instead of for emptiness.
DialogEvent_post_init_none(self) ==
    IF self.f.features = None
    THEN Raise("ValueError", "Dialog event must contain at least one feature")
    ELSE self

DialogEvent_post_init(self) ==
    IF ~Truthy(self.f.features)
    THEN Raise("ValueError", "Dialog event must contain at least one feature")
    ELSE self

DialogEvent_new(kwargs, env) ==
    LET self == dataclass_init("DialogEvent", DialogEvent_fields,
                               DialogEvent_required, DialogEvent_defaults, kwargs)
    IN  IF IsExc(self) THEN self ELSE DialogEvent_post_init(self)

DialogEvent_iter(self) ==
    Collect(<< Emit(TRUE, "id", self.f.id),
               Emit(TRUE, "speakerUri", self.f.speakerUri),
               Emit(TRUE, "span", dict_of(self.f.span)),
               Emit(TRUE, "features", MapItems(dict_of, self.f.features)),
               Emit(self.f.previousId # None, "previousId", self.f.previousId),
               Emit(self.f.context # None, "context", self.f.context) >>)

DialogEvent_from_dict(d, env) ==
    Return(Convert(Convert(Begin(d),
                   "span", LAMBDA v : from_dict("Span", v, env)),
                   "features", LAMBDA v : MapItemsFromDict("Feature", v, env)),
           LAMBDA kw : DialogEvent_new(kw, env))

(***************************************************************************)
(* manifest.py: Identification, SupportedLayers, Capability, Manifest      *)
(***************************************************************************)
Identification_fields ==
    <<"speakerUri", "serviceUrl", "organization", "conversationalName",
      "department", "role", "synopsis">>

Identification_required == {"speakerUri", "serviceUrl"}

Identification_defaults ==
    [speakerUri |-> None, serviceUrl |-> None, organization |-> None,
     conversationalName |-> None, department |-> None, role |-> None,
     synopsis |-> None]

Identification_post_init_speakerOnly(self) ==
    IF self.f.speakerUri = None
    THEN Raise("ValueError", "speakerUri is required")
    ELSE self

Identification_post_init(self) ==
    IF self.f.speakerUri = None
    THEN Raise("ValueError", "speakerUri is required")
    ELSE IF self.f.serviceUrl = None
    THEN Raise("ValueError", "serviceUrl is required")
    ELSE self

Identification_new(kwargs, env) ==
    LET self == dataclass_init("Identification", Identification_fields,
                               Identification_required, Identification_defaults,
                               kwargs)
    IN  IF IsExc(self) THEN self ELSE Identification_post_init(self)

Identification_iter(self) ==
    Collect(<< Emit(TRUE, "speakerUri", self.f.speakerUri),
               Emit(TRUE, "serviceUrl", self.f.serviceUrl),
               Emit(self.f.organization # None, "organization", self.f.organization),
               Emit(self.f.conversationalName # None, "conversationalName",
                    self.f.conversationalName),
               Emit(self.f.department # None, "department", self.f.department),
               Emit(self.f.role # None, "role", self.f.role),
               Emit(self.f.synopsis # None, "synopsis", self.f.synopsis) >>)

Identification_from_dict(d, env) == Ret(Identification_new(d, env), d)

SupportedLayers_fields == <<"input", "output">>

SupportedLayers_defaults ==
    [input |-> List(<<Str("text")>>), output |-> List(<<Str("text")>>)]

SupportedLayers_new(kwargs, env) ==
    dataclass_init("SupportedLayers", SupportedLayers_fields, {},
                   SupportedLayers_defaults, kwargs)

SupportedLayers_iter(self) ==
    Collect(<< Emit(TRUE, "input", self.f.input),
               Emit(TRUE, "output", self.f.output) >>)

SupportedLayers_from_dict(d, env) == Ret(SupportedLayers_new(d, env), d)

Capability_fields ==
    <<"keyphrases", "descriptions", "languages", "supportedLayers">>

Capability_required == {"keyphrases", "descriptions"}

Capability_defaults ==
    [keyphrases |-> None, descriptions |-> None, languages |-> None,
     supportedLayers |-> None]

Capability_post_init(self, env) ==
    IF self.f.supportedLayers = None
    THEN [self EXCEPT !.f.supportedLayers = SupportedLayers_new(Dict(<<>>), env)]
    ELSE self

Capability_new(kwargs, env) ==
    LET self == dataclass_init("Capability", Capability_fields,
                               Capability_required, Capability_defaults, kwargs)
    IN  IF IsExc(self) THEN self ELSE Capability_post_init(self, env)

Capability_iter(self) ==
    Collect(<< Emit(TRUE, "keyphrases", self.f.keyphrases),
               Emit(TRUE, "descriptions", self.f.descriptions),
               Emit(self.f.languages # None, "languages", self.f.languages),
               Emit(self.f.supportedLayers # None, "supportedLayers",
                    dict_of(self.f.supportedLayers)) >>)

Capability_from_dict(d, env) ==
    Return(Convert(Begin(d), "supportedLayers",
                   LAMBDA v : from_dict("SupportedLayers", v, env)),
           LAMBDA kw : Capability_new(kw, env))

Manifest_fields == <<"identification", "capabilities">>

Manifest_required == {"identification", "capabilities"}

Manifest_defaults == [identification |-> None, capabilities |-> None]

Manifest_new(kwargs, env) ==
    dataclass_init("Manifest", Manifest_fields, Manifest_required,
                   Manifest_defaults, kwargs)

Manifest_iter(self) ==
    Collect(<< Emit(TRUE, "identification", dict_of(self.f.identification)),
               Emit(TRUE, "capabilities",
                    MapList(dict_of, self.f.capabilities)) >>)

Manifest_from_dict(d, env) ==
    Return(Convert(Convert(Begin(d),
                   "identification", LAMBDA v : from_dict("Identification", v, env)),
                   "capabilities", LAMBDA v : MapFromDict("Capability", v, env)),
           LAMBDA kw : Manifest_new(kw, env))

(***************************************************************************)
(* envelope.py: Schema, Conversant, Conversation, Sender, To               *)
(***************************************************************************)
Schema_fields == <<"version", "url">>

Schema_defaults == [version |-> Str("1.0.0"), url |-> None]

\* Schema_post_init leaving a null version as it is.
Schema_post_init_keepNull(self) == self

Schema_post_init(self) ==
    IF self.f.version = None THEN [self EXCEPT !.f.version = Str("1.0.0")]
    ELSE self

Schema_new(kwargs, env) ==
    LET self == dataclass_init("Schema", Schema_fields, {}, Schema_defaults, kwargs)
    IN  IF IsExc(self) THEN self ELSE Schema_post_init(self)

Schema_iter(self) ==
    Collect(<< Emit(TRUE, "version", self.f.version),
               Emit(self.f.url # None, "url", self.f.url) >>)

Schema_from_dict(d, env) == Ret(Schema_new(d, env), d)

Conversant_fields == <<"identification", "persistentState">>

Conversant_required == {"identification"}

Conversant_defaults == [identification |-> None, persistentState |-> Dict(<<>>)]

Conversant_post_init(self) ==
    IF self.f.identification = None
    THEN Raise("ValueError", "identification is required for the Conversant")
    ELSE self

Conversant_new(kwargs, env) ==
    LET self == dataclass_init("Conversant", Conversant_fields,
                               Conversant_required, Conversant_defaults, kwargs)
    IN  IF IsExc(self) THEN self ELSE Conversant_post_init(self)

Conversant_iter(self) ==
    Collect(<< Emit(TRUE, "identification", dict_of(self.f.identification)),
               Emit(Truthy(self.f.persistentState), "persistentState",
                    self.f.persistentState) >>)

Conversant_from_dict(d, env) ==
    Return(Convert(Begin(d), "identification",
                   LAMBDA v : from_dict("Identification", v, env)),
           LAMBDA kw : Conversant_new(kw, env))

Conversation_fields == <<"id", "conversants">>

Conversation_defaults == [id |-> None, conversants |-> List(<<>>)]

\* Conversation_post_init drawing the same token in every call.
Conversation_post_init_sameToken(self, env) ==
    IF self.f.id = None THEN [self EXCEPT !.f.id = Str("conv:" \o "uuid-1")]
    ELSE self

\* env.uuid is the value uuid.uuid4() returns in this call.
Conversation_post_init(self, env) ==
    IF self.f.id = None THEN [self EXCEPT !.f.id = Str("conv:" \o env.uuid)]
    ELSE self

Conversation_new(kwargs, env) ==
    LET self == dataclass_init("Conversation", Conversation_fields, {},
                               Conversation_defaults, kwargs)
    IN  IF IsExc(self) THEN self ELSE Conversation_post_init(self, env)

\* Conversation_iter yielding conversants also when the list is empty.
Conversation_iter_always(self) ==
    Collect(<< Emit(TRUE, "id", self.f.id),
               Emit(TRUE, "conversants",
                    MapList(dict_of, self.f.conversants)) >>)

Conversation_iter(self) ==
    Collect(<< Emit(TRUE, "id", self.f.id),
               Emit(Truthy(self.f.conversants), "conversants",
                    MapList(dict_of, self.f.conversants)) >>)

Conversation_from_dict(d, env) ==
    Return(Convert(Begin(d), "conversants",
                   LAMBDA v : MapFromDict("Conversant", v, env)),
           LAMBDA kw : Conversation_new(kw, env))

Sender_fields == <<"speakerUri", "serviceUrl">>

Sender_required == {"speakerUri"}

Sender_defaults == [speakerUri |-> None, serviceUrl |-> None]

Sender_new(kwargs, env) ==
    dataclass_init("Sender", Sender_fields, Sender_required, Sender_defaults, kwargs)

Sender_iter(self) ==
    Collect(<< Emit(TRUE, "speakerUri", self.f.speakerUri),
               Emit(self.f.serviceUrl # None, "serviceUrl", self.f.serviceUrl) >>)

Sender_from_dict(d, env) == Ret(Sender_new(d, env), d)

To_fields == <<"speakerUri", "serviceUrl", "private">>

To_defaults == [speakerUri |-> None, serviceUrl |-> None, private |-> Bool(FALSE)]

To_post_init_both(self) ==
    IF self.f.speakerUri = None \/ self.f.serviceUrl = None
    THEN Raise("ValueError", "Must specify either speakerUri or serviceUrl")
    ELSE self

To_post_init(self) ==
    IF self.f.speakerUri = None /\ self.f.serviceUrl = None
    THEN Raise("ValueError", "Must specify either speakerUri or serviceUrl")
    ELSE self

To_new(kwargs, env) ==
    LET self == dataclass_init("To", To_fields, {}, To_defaults, kwargs)
    IN  IF IsExc(self) THEN self ELSE To_post_init(self)

To_iter(self) ==
    Collect(<< Emit(self.f.speakerUri # None, "speakerUri", self.f.speakerUri),
               Emit(self.f.serviceUrl # None, "serviceUrl", self.f.serviceUrl),
               Emit(Truthy(self.f.private), "private", self.f.private) >>)

To_from_dict(d, env) == Ret(To_new(d, env), d)

(***************************************************************************)
(* json_serializable.py / envelope.py: the open map Parameters             *)
(***************************************************************************)
\* dict.update(other): a key already present keeps its position and takes
\* the new value, new keys are appended in other's order.
Update(d, o) ==
    Dict([i \in 1..Len(d.v) |->
             IF HasKey(o, d.v[i][1]) THEN <<d.v[i][1], Get(o, d.v[i][1])>>
             ELSE d.v[i]]
         \o SelectSeq(o.v, LAMBDA pr : ~HasKey(d, pr[1])))

\* Parameters(*args, **kwargs)
Parameters_init(args, kwargs) ==
    LET d0 == Dict(<<>>)
        d1 == IF Len(args) > 0 /\ args[1].t = "dict" THEN Update(d0, args[1]) ELSE d0
    IN  Obj("Parameters", [_data |-> Update(d1, kwargs)])

JsonSerializableDict_iter(self) == self.f._data

\* The other methods of JsonSerializableDict.  A method that changes the
\* object returns [self, res]: the object after the call and what the call
\* returned (None) or raised.
__setitem__(self, key, value) ==
    [self |-> [self EXCEPT !.f._data = SetItem(@, key, value)], res |-> None]

__delitem__(self, key) ==
    IF ~HasKey(self.f._data, key)
    THEN [self |-> self, res |-> Raise("KeyError", key)]
    ELSE [self |-> [self EXCEPT !.f._data =
                       Dict(SelectSeq(@.v, LAMBDA pr : pr[1] # key))],
          res |-> None]

update_appendOnly(self, other) ==
    [self |-> [self EXCEPT !.f._data =
                  Dict(@.v \o SelectSeq(other.v, LAMBDA pr : ~HasKey(@, pr[1])))],
     res |-> None]

update(self, other) ==
    [self |-> [self EXCEPT !.f._data = Update(@, other)], res |-> None]

clear(self) ==
    [self |-> [self EXCEPT !.f._data = Dict(<<>>)], res |-> None]

__len__(self) == Len(self.f._data.v)

__contains__(self, key) == HasKey(self.f._data, key)

get(self, key, default) ==
    IF HasKey(self.f._data, key) THEN Get(self.f._data, key) ELSE default

(***************************************************************************)
(* envelope.py: Event, Envelope                                            *)
(***************************************************************************)
Event_fields == <<"eventType", "to", "reason", "parameters">>

Event_required == {"eventType"}

Event_defaults ==
    [eventType |-> None, to |-> None, reason |-> None,
     parameters |-> Parameters_init(<<>>, Dict(<<>>))]

Event_post_init(self) ==
    IF self.f.parameters.t = "dict"
    THEN [self EXCEPT !.f.parameters = Parameters_init(<<self.f.parameters>>, Dict(<<>>))]
    ELSE self

Event_new(kwargs, env) ==
    LET self == dataclass_init("Event", Event_fields, Event_required,
                               Event_defaults, kwargs)
    IN  IF IsExc(self) THEN self ELSE Event_post_init(self)

\* Event_iter yielding reason before to.
Event_iter_reasonFirst(self) ==
    Collect(<< Emit(TRUE, "eventType", self.f.eventType),
               Emit(self.f.reason # None, "reason", self.f.reason),
               Emit(self.f.to # None, "to", dict_of(self.f.to)),
               Emit(Truthy(self.f.parameters), "parameters",
                    dict_of(self.f.parameters)) >>)

Event_iter(self) ==
    Collect(<< Emit(TRUE, "eventType", self.f.eventType),
               Emit(self.f.to # None, "to", dict_of(self.f.to)),
               Emit(self.f.reason # None, "reason", self.f.reason),
               Emit(Truthy(self.f.parameters), "parameters",
                    dict_of(self.f.parameters)) >>)

Event_from_dict(d, env) ==
    Return(Convert(Convert(Begin(d),
                   "to", LAMBDA v : from_dict("To", v, env)),
                   "parameters",
                   LAMBDA v : IF v.t = "dict"
                              THEN Ret(Parameters_init(<<v>>, Dict(<<>>)), v)
                              ELSE Ret(v, v)),
           LAMBDA kw : Event_new(kw, env))

Envelope_fields == <<"conversation", "sender", "schema", "events">>

Envelope_required == {"conversation", "sender"}

Envelope_defaults(env) ==
    [conversation |-> None, sender |-> None,
     schema |-> Schema_new(Dict(<<>>), env), events |-> List(<<>>)]

Envelope_new(kwargs, env) ==
    dataclass_init("Envelope", Envelope_fields, Envelope_required,
                   Envelope_defaults(env), kwargs)

Envelope_iter(self) ==
    Collect(<< Emit(TRUE, "schema", dict_of(self.f.schema)),
               Emit(TRUE, "conversation", dict_of(self.f.conversation)),
               Emit(TRUE, "sender", dict_of(self.f.sender)),
               Emit(Truthy(self.f.events), "events",
                    MapList(dict_of, self.f.events)) >>)

Envelope_from_dict(d, env) ==
    Return(Convert(Convert(Convert(Convert(Begin(d),
                   "schema", LAMBDA v : from_dict("Schema", v, env)),
                   "conversation", LAMBDA v : from_dict("Conversation", v, env)),
                   "sender", LAMBDA v : from_dict("Sender", v, env)),
                   "events", LAMBDA v : MapFromDict("Event", v, env)),
           LAMBDA kw : Envelope_new(kw, env))

(***************************************************************************)
(* dict(v): a record is projected through its class's __iter__, a dict is  *)
(* copied, an empty list gives an empty dict; anything else cannot be      *)
(* turned into a dict.                                                     *)
(***************************************************************************)
dict_of(v) ==
    CASE IsObj(v, "Span") -> Span_iter(v)
      [] IsObj(v, "Token") -> Token_iter(v)
      [] IsObj(v, "Feature") -> Feature_iter(v)
      [] IsObj(v, "DialogEvent") -> DialogEvent_iter(v)
      [] IsObj(v, "Identification") -> Identification_iter(v)
      [] IsObj(v, "SupportedLayers") -> SupportedLayers_iter(v)
      [] IsObj(v, "Capability") -> Capability_iter(v)
      [] IsObj(v, "Manifest") -> Manifest_iter(v)
      [] IsObj(v, "Schema") -> Schema_iter(v)
      [] IsObj(v, "Conversant") -> Conversant_iter(v)
      [] IsObj(v, "Conversation") -> Conversation_iter(v)
      [] IsObj(v, "Sender") -> Sender_iter(v)
      [] IsObj(v, "To") -> To_iter(v)
      [] IsObj(v, "Parameters") -> JsonSerializableDict_iter(v)
      [] IsObj(v, "Event") -> Event_iter(v)
      [] IsObj(v, "Envelope") -> Envelope_iter(v)
      [] v.t = "dict" -> v
      [] v.t = "list" /\ Len(v.v) = 0 -> Dict(<<>>)
      [] v.t = "list" -> Raise("ValueError", "dictionary update sequence element")
      [] OTHER -> Raise("TypeError", "object is not iterable")

(***************************************************************************)
(* Equality (==).  @dataclass generates __eq__: same class and equal       *)
(* tuples of declared fields.  Parameters is a @dataclass without declared *)
(* fields, so its generated __eq__ compares two empty tuples.  dict        *)
(* equality ignores insertion order.  Norm maps a value to a form on which *)
(* == is plain equality.                                                   *)
(***************************************************************************)
RECURSIVE Norm(_)
Norm(v) ==
    CASE v.t = "dict" -> [t |-> "dict", v |-> [k \in Keys(v) |-> Norm(Get(v, k))]]
      [] v.t = "list" -> List([i \in 1..Len(v.v) |-> Norm(v.v[i])])
      [] IsObj(v, "Parameters") -> [t |-> "obj", cls |-> "Parameters"]
      [] v.t = "obj" -> Obj(v.cls, [n \in DOMAIN v.f |-> Norm(v.f[n])])
      [] OTHER -> v

dataclass_eq(a, b) == Norm(a) = Norm(b)

(***************************************************************************)
(* JSON text.  json.dumps turns a tree of dict / list / str / number /     *)
(* bool / None into text, here the tree of J-tagged nodes the text spells; *)
(* any other value goes to the default hook when there is one and is a     *)
(* TypeError otherwise.  json.loads builds a tree of dict, list and        *)
(* primitives from the text.                                               *)
(***************************************************************************)
JNode(tag, payload) == [t |-> tag, v |-> payload]
IsJson(v) == v.t \in {"jobject", "jarray", "jstring", "jnumber", "jbool", "jnull"}

RECURSIVE _serialize_value(_)
RECURSIVE __json__(_)

\* JsonSerializableDict.__json__
__json__(self) ==
    LET pairs == dict_of(self)
    IN  IF IsExc(pairs) THEN pairs ELSE MapItems(_serialize_value, pairs)

\* A value with __iter__ that is neither a JsonSerializable, a dict nor a
\* str becomes the list of its items: for a record of dialog_event.py the
\* items are its (key, value) pairs, each again a list.
_serialize_value(value) ==
    CASE value.t = "obj" /\ value.cls \in JsonSerializable -> __json__(value)
      [] value.t = "dict" -> MapItems(_serialize_value, value)
      [] value.t = "list" -> MapList(_serialize_value, value)
      [] value.t = "set" -> MapList(_serialize_value, List(value.v))
      [] value.t = "obj" ->
            LET d == dict_of(value)
            IN  IF IsExc(d) THEN d
                ELSE MapList(LAMBDA pr : MapList(_serialize_value, pr),
                             List([i \in 1..Len(d.v) |->
                                     List(<<Str(d.v[i][1]), d.v[i][2]>>)]))
      [] OTHER -> value

\* JsonSerializable._json_default
_json_default(obj) ==
    IF obj.t = "obj" /\ obj.cls \in JsonSerializable THEN __json__(obj)
    ELSE Raise("TypeError",
               "Object of type " \o TypeName(obj) \o " is not JSON serializable")

RECURSIVE json_dumps(_, _)
json_dumps(v, hook) ==
    CASE v.t = "None" -> JNode("jnull", "null")
      [] v.t = "str" -> JNode("jstring", v.v)
      [] v.t = "num" -> JNode("jnumber", v.v)
      [] v.t = "bool" -> JNode("jbool", v.v)
      [] v.t = "list" ->
            LET r == MapList(LAMBDA e : json_dumps(e, hook), v)
            IN  IF IsExc(r) THEN r ELSE JNode("jarray", r.v)
      [] v.t = "dict" ->
            LET r == MapItems(LAMBDA e : json_dumps(e, hook), v)
            IN  IF IsExc(r) THEN r ELSE JNode("jobject", r.v)
      [] OTHER ->
            IF ~hook
            THEN Raise("TypeError",
                       "Object of type " \o TypeName(v) \o " is not JSON serializable")
            ELSE LET o == _json_default(v)
                 IN  IF IsExc(o) THEN o ELSE json_dumps(o, hook)

RECURSIVE json_loads(_)
json_loads(jt) ==
    CASE jt.t = "jnull" -> None
      [] jt.t = "jstring" -> Str(jt.v)
      [] jt.t = "jnumber" -> Num(jt.v)
      [] jt.t = "jbool" -> Bool(jt.v)
      [] jt.t = "jarray" -> List([i \in 1..Len(jt.v) |-> json_loads(jt.v[i])])
      [] jt.t = "jobject" ->
            Dict([i \in 1..Len(jt.v) |-> <<jt.v[i][1], json_loads(jt.v[i][2])>>])

\* to_json: dialog_event.py dumps dict(self) without a hook,
\* json_serializable.py dumps self with _json_default as the hook.
to_json(self) ==
    IF self.cls \in JsonSerializable THEN json_dumps(self, TRUE)
    ELSE LET d == dict_of(self)
         IN  IF IsExc(d) THEN d ELSE json_dumps(d, FALSE)

(***************************************************************************)
(* Dispatch on the class: the constructor call and cls.from_dict(data)     *)
(***************************************************************************)
Classes == {"Span", "Token", "Feature", "DialogEvent", "Identification",
            "SupportedLayers", "Capability", "Manifest", "Schema", "Conversant",
            "Conversation", "Sender", "To", "Event", "Envelope"}

new(c, kwargs, env) ==
    CASE c = "Span" -> Span_new(kwargs, env)
      [] c = "Token" -> Token_new(kwargs, env)
      [] c = "Feature" -> Feature_new(kwargs, env)
      [] c = "DialogEvent" -> DialogEvent_new(kwargs, env)
      [] c = "Identification" -> Identification_new(kwargs, env)
      [] c = "SupportedLayers" -> SupportedLayers_new(kwargs, env)
      [] c = "Capability" -> Capability_new(kwargs, env)
      [] c = "Manifest" -> Manifest_new(kwargs, env)
      [] c = "Schema" -> Schema_new(kwargs, env)
      [] c = "Conversant" -> Conversant_new(kwargs, env)
      [] c = "Conversation" -> Conversation_new(kwargs, env)
      [] c = "Sender" -> Sender_new(kwargs, env)
      [] c = "To" -> To_new(kwargs, env)
      [] c = "Event" -> Event_new(kwargs, env)
      [] c = "Envelope" -> Envelope_new(kwargs, env)

from_dict(c, d, env) ==
    CASE c = "Span" -> Span_from_dict(d, env)
      [] c = "Token" -> Token_from_dict(d, env)
      [] c = "Feature" -> Feature_from_dict(d, env)
      [] c = "DialogEvent" -> DialogEvent_from_dict(d, env)
      [] c = "Identification" -> Identification_from_dict(d, env)
      [] c = "SupportedLayers" -> SupportedLayers_from_dict(d, env)
      [] c = "Capability" -> Capability_from_dict(d, env)
      [] c = "Manifest" -> Manifest_from_dict(d, env)
      [] c = "Schema" -> Schema_from_dict(d, env)
      [] c = "Conversant" -> Conversant_from_dict(d, env)
      [] c = "Conversation" -> Conversation_from_dict(d, env)
      [] c = "Sender" -> Sender_from_dict(d, env)
      [] c = "To" -> To_from_dict(d, env)
      [] c = "Event" -> Event_from_dict(d, env)
      [] c = "Envelope" -> Envelope_from_dict(d, env)

\* from_json: json.loads, then from_dict
from_json(c, text, env) == from_dict(c, json_loads(text), env)

(***************************************************************************)
(* Bounds of the checked instance                                          *)
(***************************************************************************)
\* longest tokens list of a Feature
MaxTokens == 2
\* most entries of a DialogEvent's features
MaxFeatures == 2
\* longest conversants / events / capabilities list
MaxItems == 1
\* constructing calls in one run (clock and uuid source)
MaxOps == 3
\* calls made on one Parameters after its creation
MaxEdits == 3

(***************************************************************************)
(* Inputs.  Keyword arguments and mappings are built field by field;       *)
(* Absent marks a key the caller leaves out.                               *)
(***************************************************************************)
Absent == [t |-> "absent"]

MkDict(fields, c) ==
    LET live == SelectSeq(fields, LAMBDA n : c[n] # Absent)
    IN  Dict([i \in 1..Len(live) |-> <<live[i], c[live[i]]>>])

Reverse(d) == Dict([i \in 1..Len(d.v) |-> d.v[Len(d.v) + 1 - i]])
BothOrders(S) == S \cup {Reverse(d) : d \in S}

SeqsUpTo(S, n) == UNION {[1..k -> S] : k \in 0..n}
ListsUpTo(S, n) == {List(sq) : sq \in SeqsUpTo(S, n)}

D1(k1, v1) == Dict(<< <<k1, v1>> >>)
D2(k1, v1, k2, v2) == Dict(<< <<k1, v1>>, <<k2, v2>> >>)
D3(k1, v1, k2, v2, k3, v3) == Dict(<< <<k1, v1>>, <<k2, v2>>, <<k3, v3>> >>)

\* the environment of one call: the clock reading (datetime.now().isoformat())
\* and the value the next uuid.uuid4() returns
NowAt(n) == "2026-11-04T10:00:0" \o ToString(n)
Uuid4(n) == "uuid-" \o ToString(n)
Env0 == [now |-> NowAt(0), uuid |-> Uuid4(0)]

Opt(S) == {Absent, None} \cup S

\* ---- dialog_event.py ----
SpanKwargs ==
    {MkDict(Span_fields, c) : c \in
        [startTime : Opt({Str("2024-05-01T09:00:00")}),
         startOffset : Opt({Str("PT1S")}),
         endTime : Opt({DateTime("2024-05-01T10:30:00")}),
         endOffset : Opt({Str("PT2S")})]}

SpanMaps ==
    {MkDict(Span_fields, c) : c \in
        [startTime : Opt({Str("2024-05-01T09:00:00")}),
         startOffset : Opt({Str("PT1S")}),
         endTime : Opt({Str("2024-05-01T10:30:00"), Str("2024-05-01"),
                        Str("yesterday")}),
         endOffset : Opt({Str("PT2S")})]}

span_abs == Span_new(D2("startTime", Str("2024-05-01T09:00:00"),
                        "endTime", DateTime("2024-05-01T10:30:00")), Env0)
span_off == Span_new(D3("startTime", None, "startOffset", Str("PT1S"),
                        "endOffset", Str("PT2S")), Env0)
SampleSpans == {span_abs, span_off}

SampleSpanMaps ==
    { D2("startTime", Str("2024-05-01T09:00:00"), "endTime", Str("2024-05-01")),
      D3("startTime", None, "startOffset", Str("PT1S"), "endOffset", Str("PT2S")),
      D1("startOffset", Str("PT1S")),
      Dict(<<>>) }

Confidences == {Num(0), Num(100), Num(101), Num(-10)}

TokenKwargs ==
    {MkDict(Token_fields, c) : c \in
        [value : Opt({Str("hello")}),
         valueUrl : Opt({Str("https://x/v")}),
         span : Opt(SampleSpans),
         confidence : Opt(Confidences),
         links : {Absent, List(<<>>), List(<<Str("$.features.text")>>)}]}

TokenMaps ==
    {MkDict(Token_fields, c) : c \in
        [value : Opt({Str("hello")}),
         valueUrl : {Absent, Str("https://x/v")},
         span : {Absent} \cup SampleSpanMaps,
         confidence : {Absent, None, Num(0), Num(100), Num(150)},
         links : {Absent, List(<<>>), List(<<Str("$.features.text")>>)}]}

tok_value == Token_new(D2("value", Str("hello"), "confidence", Num(0)), Env0)
tok_url == Token_new(D3("valueUrl", Str("https://x/v"), "span", span_abs,
                        "links", List(<<Str("$.features.text")>>)), Env0)
SampleTokens == {tok_value, tok_url}

SampleTokenMaps ==
    { D2("value", Str("hello"), "confidence", Num(0)),
      D3("valueUrl", Str("https://x/v"),
         "span", D2("startTime", Str("2024-05-01T09:00:00"),
                    "endTime", Str("2024-05-01")),
         "links", List(<<Str("$.features.text")>>)),
      D2("value", Str("hello"), "confidence", Num(150)) }

Encodings == {Str("UTF-8"), Str("ISO-8859-1"), Str("UTF-16")}

FeatureKwargs ==
    {MkDict(Feature_fields, c) : c \in
        [mimeType : {Absent, Str("audio/wav")},
         tokens : {Absent} \cup ListsUpTo(SampleTokens, MaxTokens),
         alternates : {Absent, List(<<>>), List(<<List(<<tok_value>>)>>)},
         lang : Opt({Str("en")}),
         encoding : Opt(Encodings),
         tokenSchema : {Absent, Str("bert")}]}

FeatureMaps ==
    {MkDict(Feature_fields, c) : c \in
        [mimeType : {Absent, Str("audio/wav")},
         tokens : {Absent} \cup ListsUpTo(SampleTokenMaps, MaxTokens),
         alternates : {Absent, List(<<>>),
                       List(<<List(<<D1("value", Str("hello"))>>)>>)},
         lang : Opt({Str("en")}),
         encoding : {Absent, Str("UTF-8"), Str("UTF-16")},
         tokenSchema : {Absent, None}]}

feat_text == Feature_new(D1("tokens", List(<<tok_value>>)), Env0)
feat_audio == Feature_new(D3("mimeType", Str("audio/wav"),
                             "tokens", List(<<tok_url>>),
                             "encoding", Str("UTF-8")), Env0)
SampleFeatures == {feat_text, feat_audio}

SampleFeatureMaps ==
    { D1("tokens", List(<<D2("value", Str("hello"), "confidence", Num(0))>>)),
      D2("mimeType", Str("audio/wav"), "encoding", Str("UTF-8")),
      D1("encoding", Str("UTF-16")),
      D1("tokens", List(<<D2("value", Str("hello"), "confidence", Num(150))>>)) }

FeatureName(i) == "feature" \o ToString(i)

\* dicts name -> value with 0..n entries
DictsUpTo(S, n) ==
    {Dict([i \in 1..Len(sq) |-> <<FeatureName(i), sq[i]>>]) : sq \in SeqsUpTo(S, n)}

DialogEventKwargs ==
    {MkDict(DialogEvent_fields, c) : c \in
        [id : {Absent, Str("de:1")},
         speakerUri : {Str("tag:bot1")},
         span : SampleSpans,
         features : Opt(DictsUpTo(SampleFeatures, MaxFeatures)),
         previousId : Opt({Str("de:0")}),
         context : Opt({Str("greeting")})]}

DialogEventMaps ==
    {MkDict(DialogEvent_fields, c) : c \in
        [id : {Absent, Str("de:1")},
         speakerUri : {Str("tag:bot1")},
         span : {Absent} \cup SampleSpanMaps,
         features : {Absent} \cup DictsUpTo(SampleFeatureMaps, MaxFeatures),
         previousId : Opt({Str("de:0")}),
         context : {Absent, Str("greeting")}]}

\* ---- manifest.py ----
IdentificationKwargs ==
    {MkDict(Identification_fields, c) : c \in
        [speakerUri : Opt({Str("tag:bot1")}),
         serviceUrl : Opt({Str("https://x/bot1")}),
         organization : Opt({Str("ACME")}),
         conversationalName : {Absent, Str("Bot")},
         department : {Absent, None},
         role : {Absent, Str("helper")},
         synopsis : {Absent, None}]}

ident_min == Identification_new(D2("speakerUri", Str("tag:bot1"),
                                   "serviceUrl", Str("https://x/bot1")), Env0)
ident_org == Identification_new(D3("speakerUri", Str("tag:bot2"),
                                   "serviceUrl", Str("https://x/bot2"),
                                   "organization", Str("ACME")), Env0)
SampleIdentifications == {ident_min, ident_org}

SampleIdentificationMaps ==
    { D2("speakerUri", Str("tag:bot1"), "serviceUrl", Str("https://x/bot1")),
      D3("serviceUrl", Str("https://x/bot2"), "speakerUri", Str("tag:bot2"),
         "organization", None),
      D1("speakerUri", Str("tag:bot3")) }

Layers == {List(<<Str("text")>>), List(<<Str("voice"), Str("text")>>)}

SupportedLayersKwargs ==
    {MkDict(SupportedLayers_fields, c) : c \in
        [input : {Absent} \cup Layers, output : {Absent} \cup Layers]}

layers_voice == SupportedLayers_new(D1("input", List(<<Str("voice"), Str("text")>>)), Env0)

CapabilityKwargs ==
    {MkDict(Capability_fields, c) : c \in
        [keyphrases : {Absent, List(<<Str("weather")>>)},
         descriptions : {Absent, List(<<Str("forecasts")>>)},
         languages : Opt({List(<<>>), List(<<Str("en")>>)}),
         supportedLayers : Opt({layers_voice})]}

CapabilityMaps ==
    {MkDict(Capability_fields, c) : c \in
        [keyphrases : {Absent, List(<<Str("weather")>>)},
         descriptions : {Absent, List(<<Str("forecasts")>>)},
         languages : Opt({List(<<>>), List(<<Str("en")>>)}),
         supportedLayers : {Absent, None, Dict(<<>>),
                            D1("input", List(<<Str("voice"), Str("text")>>))}]}

cap_default == Capability_new(D2("keyphrases", List(<<Str("weather")>>),
                                 "descriptions", List(<<Str("forecasts")>>)), Env0)
cap_voice == Capability_new(D3("keyphrases", List(<<Str("news")>>),
                               "descriptions", List(<<Str("headlines")>>),
                               "supportedLayers", layers_voice), Env0)
SampleCapabilities == {cap_default, cap_voice}

SampleCapabilityMaps ==
    { D2("keyphrases", List(<<Str("weather")>>),
         "descriptions", List(<<Str("forecasts")>>)),
      D3("descriptions", List(<<Str("headlines")>>),
         "keyphrases", List(<<Str("news")>>),
         "languages", None) }

ManifestKwargs ==
    {MkDict(Manifest_fields, c) : c \in
        [identification : {Absent} \cup SampleIdentifications,
         capabilities : {Absent} \cup ListsUpTo(SampleCapabilities, MaxItems)]}

ManifestMaps ==
    {MkDict(Manifest_fields, c) : c \in
        [identification : {Absent} \cup SampleIdentificationMaps,
         capabilities : {Absent} \cup ListsUpTo(SampleCapabilityMaps, MaxItems)]}

\* ---- envelope.py ----
SchemaKwargs ==
    {MkDict(Schema_fields, c) : c \in
        [version : Opt({Str("1.0.0"), Str("0.9.4")}),
         url : Opt({Str("https://x/schema")})]}

schema_old == Schema_new(D1("version", Str("0.9.4")), Env0)

States == {Dict(<<>>), D1("mood", Str("calm")), D1("tags", Set(<<Str("a")>>)),
           D1("token", tok_value)}

ConversantKwargs ==
    {MkDict(Conversant_fields, c) : c \in
        [identification : Opt(SampleIdentifications),
         persistentState : {Absent} \cup States]}

ConversantMaps ==
    {MkDict(Conversant_fields, c) : c \in
        [identification : {Absent, None} \cup SampleIdentificationMaps,
         persistentState : {Absent, Object("Mood")} \cup States]}

conversant_min == Conversant_new(D1("identification", ident_min), Env0)
conversant_state == Conversant_new(D2("identification", ident_org,
                                      "persistentState", D1("mood", Str("calm"))), Env0)
SampleConversants == {conversant_min, conversant_state}

SampleConversantMaps ==
    { D1("identification", D2("speakerUri", Str("tag:bot1"),
                              "serviceUrl", Str("https://x/bot1"))),
      D2("persistentState", Dict(<<>>),
         "identification", D2("speakerUri", Str("tag:bot2"),
                              "serviceUrl", Str("https://x/bot2"))) }

ConversationKwargs ==
    {MkDict(Conversation_fields, c) : c \in
        [id : Opt({Str("conv:given")}),
         conversants : {Absent} \cup ListsUpTo(SampleConversants, MaxItems)]}

ConversationMaps ==
    {MkDict(Conversation_fields, c) : c \in
        [id : Opt({Str("conv:given")}),
         conversants : {Absent} \cup ListsUpTo(SampleConversantMaps, MaxItems)]}

conversation_given == Conversation_new(D2("id", Str("conv:given"),
                                          "conversants", List(<<conversant_min>>)), Env0)

SenderKwargs ==
    {MkDict(Sender_fields, c) : c \in
        [speakerUri : Opt({Str("tag:me"), Object("Uri")}),
         serviceUrl : Opt({Str("https://x/me")})]}

sender_me == Sender_new(D1("speakerUri", Str("tag:me")), Env0)

ToKwargs ==
    {MkDict(To_fields, c) : c \in
        [speakerUri : Opt({Str("tag:bot1")}),
         serviceUrl : Opt({Str("https://x/bot1")}),
         private : {Absent, Bool(FALSE), Bool(TRUE)}]}

to_bot == To_new(D1("speakerUri", Str("tag:bot1")), Env0)

Payloads == {Dict(<<>>), D1("text", Str("hi")),
             D2("n", Num(1), "dialogEvent", D1("id", Str("de:1"))),
             D1("tags", Set(<<Str("a")>>)),
             D1("handles", List(<<Object("Handle")>>)),
             D1("token", tok_value), D1("to", to_bot)}

EventKwargs ==
    {MkDict(Event_fields, c) : c \in
        [eventType : {Absent, Str("utterance")},
         to : Opt({to_bot}),
         reason : Opt({Str("because")}),
         parameters : {Absent} \cup Payloads
                      \cup {Parameters_init(<<pl>>, Dict(<<>>)) : pl \in Payloads}]}

EventMaps ==
    {MkDict(Event_fields, c) : c \in
        [eventType : {Absent, Str("utterance")},
         to : {Absent, D1("speakerUri", Str("tag:bot1")),
               D2("serviceUrl", Str("https://x/bot1"), "private", Bool(TRUE)),
               D1("private", Bool(TRUE))},
         reason : Opt({Str("because")}),
         parameters : {Absent} \cup Payloads]}

event_utterance == Event_new(D3("eventType", Str("utterance"), "to", to_bot,
                                "parameters", D1("text", Str("hi"))), Env0)
event_bye == Event_new(D1("eventType", Str("bye")), Env0)
event_utterance2 == Event_new(D3("eventType", Str("utterance"), "to", to_bot,
                                 "parameters", D1("text", Str("bye"))), Env0)
SampleEvents == {event_utterance, event_utterance2, event_bye}

SampleEventMaps ==
    { D3("parameters", D1("text", Str("hi")),
         "to", D1("speakerUri", Str("tag:bot1")),
         "eventType", Str("utterance")),
      D1("eventType", Str("bye")),
      D2("eventType", Str("invite"), "to", D1("private", Bool(TRUE))) }

EnvelopeKwargs ==
    {MkDict(Envelope_fields, c) : c \in
        [conversation : {Absent, conversation_given,
                         Conversation_new(Dict(<<>>), Env0)},
         sender : {Absent, sender_me},
         schema : {Absent, schema_old},
         events : {Absent} \cup ListsUpTo(SampleEvents, MaxItems)]}

EnvelopeMaps ==
    {MkDict(<<"events", "sender", "conversation", "schema">>, c) : c \in
        [conversation : {Absent, Dict(<<>>),
                         D1("conversants", List(<<D1("identification",
                                D2("speakerUri", Str("tag:bot1"),
                                   "serviceUrl", Str("https://x/bot1")))>>)),
                         D1("conversants", List(<<D1("identification",
                                D1("speakerUri", Str("tag:bot3")))>>))},
         sender : {Absent, D1("speakerUri", Str("tag:me"))},
         schema : {Absent, Dict(<<>>), D1("version", None),
                   D1("version", Str("0.9.4"))},
         events : {Absent} \cup ListsUpTo(SampleEventMaps, MaxItems)]}

\* ---- the open map under edit ----
ParamKeys == {"a", "b"}
ParamValues == {Num(1), Num(2)}
InitialMaps == {Dict(<<>>), D1("a", Num(1)), D2("a", Num(1), "b", Num(1))}
KeywordMaps == {Dict(<<>>), D1("a", Num(2)), D1("b", Num(2))}
UpdateMaps == {D1("a", Num(2)), D2("b", Num(1), "a", Num(1))}

\* one call made on prm: the method, its key and value arguments, the result
Call(op, key, value, res) == [op |-> op, k |-> key, v |-> value, res |-> res]

\* What a caller passes to the constructor of class c, and the mappings
\* from_dict of class c is given; mappings come in both key orders.
Kwargs(c) ==
    CASE c = "Span" -> BothOrders(SpanKwargs)
      [] c = "Token" -> TokenKwargs
      [] c = "Feature" -> FeatureKwargs
      [] c = "DialogEvent" -> DialogEventKwargs
      [] c = "Identification" -> IdentificationKwargs
      [] c = "SupportedLayers" -> SupportedLayersKwargs
      [] c = "Capability" -> CapabilityKwargs
      [] c = "Manifest" -> ManifestKwargs
      [] c = "Schema" -> SchemaKwargs
      [] c = "Conversant" -> ConversantKwargs
      [] c = "Conversation" -> ConversationKwargs
      [] c = "Sender" -> SenderKwargs
      [] c = "To" -> ToKwargs
      [] c = "Event" -> BothOrders(EventKwargs)
      [] c = "Envelope" -> EnvelopeKwargs

Maps(c) ==
    CASE c = "Span" -> BothOrders(SpanMaps)
      [] c = "Token" -> BothOrders(TokenMaps)
      [] c = "Feature" -> FeatureMaps
      [] c = "DialogEvent" -> BothOrders(DialogEventMaps)
      [] c = "Identification" -> BothOrders(IdentificationKwargs)
      [] c = "SupportedLayers" -> BothOrders(SupportedLayersKwargs)
      [] c = "Capability" -> BothOrders(CapabilityMaps)
      [] c = "Manifest" -> BothOrders(ManifestMaps)
      [] c = "Schema" -> BothOrders(SchemaKwargs)
      [] c = "Conversant" -> BothOrders(ConversantMaps)
      [] c = "Conversation" -> BothOrders(ConversationMaps)
      [] c = "Sender" -> BothOrders(SenderKwargs)
      [] c = "To" -> BothOrders(ToKwargs)
      [] c = "Event" -> BothOrders(EventMaps)
      [] c = "Envelope" -> EnvelopeMaps

(***************************************************************************)
(* The state machine: one run builds a record (constructor or from_dict),  *)
(* projects it, rebuilds a record from the projection and projects that;   *)
(* or encodes the record as JSON text and decodes the text.                *)
(***************************************************************************)
Nil == [t |-> "nil"]

CurEnv == [now |-> NowAt(clock + 1), uuid |-> Uuid4(uuids + 1)]

\* uuid4() was called iff a Conversation came out with the fresh id, either
\* as the result or stored into the mapping by Envelope.from_dict.
FreshConversation(v) ==
    IsObj(v, "Conversation") /\ v.f.id = Str("conv:" \o CurEnv.uuid)

uuid4_calls(res, d) ==
    IF \/ FreshConversation(res)
       \/ /\ d.t = "dict"
          /\ HasKey(d, "conversation")
          /\ FreshConversation(Get(d, "conversation"))
    THEN 1 ELSE 0

Init ==
    /\ pc = "idle"
    /\ cls = "none"
    /\ how = "none"
    /\ arg = Nil /\ data = Nil /\ x = Nil /\ p = Nil
    /\ y = Nil /\ ydata = Nil /\ q = Nil /\ z = Nil /\ j = Nil
    /\ clock = 0
    /\ uuids = 0
    /\ prm = Nil
    /\ calls = <<>>
    /\ eq = Nil

\* x = cls(**kwargs)
Construct(c) ==
    /\ pc = "idle"
    /\ clock < MaxOps
    /\ \E kw \in Kwargs(c) :
          LET r == new(c, kw, CurEnv)
          IN  /\ x' = r
              /\ arg' = kw
              /\ data' = kw
              /\ uuids' = uuids + uuid4_calls(r, Nil)
    /\ cls' = c
    /\ how' = "init"
    /\ pc' = "built"
    /\ clock' = clock + 1
    /\ UNCHANGED <<p, y, ydata, q, j, z, prm, calls, eq>>

\* x = cls.from_dict(m)
FromDict(c) ==
    /\ pc = "idle"
    /\ clock < MaxOps
    /\ \E m \in Maps(c) :
          LET r == from_dict(c, m, CurEnv)
          IN  /\ x' = r.res
              /\ arg' = m
              /\ data' = r.data
              /\ uuids' = uuids + uuid4_calls(r.res, r.data)
    /\ cls' = c
    /\ how' = "from_dict"
    /\ pc' = "built"
    /\ clock' = clock + 1
    /\ UNCHANGED <<p, y, ydata, q, j, z, prm, calls, eq>>

\* p = dict(x)
Project ==
    /\ pc = "built"
    /\ x.t = "obj"
    /\ p' = dict_of(x)
    /\ pc' = "projected"
    /\ UNCHANGED <<cls, how, arg, data, x, y, ydata, q, j, clock, uuids, z, prm, calls, eq>>

\* y = cls.from_dict(p)
Reconstruct ==
    /\ pc = "projected"
    /\ p.t = "dict"
    /\ clock < MaxOps
    /\ LET r == from_dict(cls, p, CurEnv)
       IN  /\ y' = r.res
           /\ ydata' = r.data
           /\ uuids' = uuids + uuid4_calls(r.res, r.data)
    /\ pc' = "reconstructed"
    /\ clock' = clock + 1
    /\ UNCHANGED <<cls, how, arg, data, x, p, q, j, z, prm, calls, eq>>

\* q = dict(y)
Reproject ==
    /\ pc = "reconstructed"
    /\ y.t = "obj"
    /\ q' = dict_of(y)
    /\ pc' = "reprojected"
    /\ UNCHANGED <<cls, how, arg, data, x, p, y, ydata, j, clock, uuids, z, prm, calls, eq>>

\* z = cls(same keyword arguments) or z = cls.from_dict(a mapping equal to
\* the one of the first call): the first call made once more in the same run
\* z = cls.from_dict(data): the mapping the first from_dict was given, as that
\* call left it, is given to from_dict once more
Reuse ==
    /\ pc = "built"
    /\ how = "from_dict"
    /\ clock < MaxOps
    /\ LET r == from_dict(cls, data, CurEnv)
       IN  /\ z' = r.res
           /\ uuids' = uuids + uuid4_calls(r.res, r.data)
    /\ pc' = "reused"
    /\ clock' = clock + 1
    /\ UNCHANGED <<cls, how, arg, data, x, p, y, ydata, q, j, prm, calls, eq>>

Again ==
    /\ pc = "built"
    /\ clock < MaxOps
    /\ LET r == IF how = "init" THEN Ret(new(cls, arg, CurEnv), arg)
                ELSE from_dict(cls, arg, CurEnv)
       IN  /\ z' = r.res
           /\ uuids' = uuids + uuid4_calls(r.res, r.data)
    /\ pc' = "twice"
    /\ clock' = clock + 1
    /\ UNCHANGED <<cls, how, arg, data, x, p, y, ydata, q, j, prm, calls, eq>>

\* j = x.to_json()
ToJson ==
    /\ pc = "built"
    /\ x.t = "obj"
    /\ j' = to_json(x)
    /\ pc' = "encoded"
    /\ UNCHANGED <<cls, how, arg, data, x, p, y, ydata, q, clock, uuids, z, prm, calls, eq>>

\* y = cls.from_json(j)
FromJson ==
    /\ pc = "encoded"
    /\ IsJson(j)
    /\ clock < MaxOps
    /\ LET r == from_json(cls, j, CurEnv)
       IN  /\ y' = r.res
           /\ ydata' = r.data
           /\ uuids' = uuids + uuid4_calls(r.res, r.data)
    /\ pc' = "decoded"
    /\ clock' = clock + 1
    /\ UNCHANGED <<cls, how, arg, data, x, p, q, j, z, prm, calls, eq>>

\* prm = Parameters(initial, **kwargs)
NewParameters ==
    /\ pc = "idle"
    /\ \E initial \in InitialMaps, kwargs \in KeywordMaps :
          /\ prm' = Parameters_init(<<initial>>, kwargs)
          /\ calls' = << Call("update", "", initial, None),
                         Call("update", "", kwargs, None) >>
    /\ pc' = "open"
    /\ UNCHANGED <<cls, how, arg, data, x, p, y, ydata, q, z, j, clock, uuids, eq>>

\* prm[key] = value
SetItemCall ==
    /\ pc = "open" /\ Len(calls) < 2 + MaxEdits
    /\ \E key \in ParamKeys, value \in ParamValues :
          /\ prm' = __setitem__(prm, key, value).self
          /\ calls' = Append(calls, Call("set", key, value,
                                          __setitem__(prm, key, value).res))
    /\ UNCHANGED <<pc, cls, how, arg, data, x, p, y, ydata, q, z, j, clock, uuids, eq>>

\* del prm[key]
DelItemCall ==
    /\ pc = "open" /\ Len(calls) < 2 + MaxEdits
    /\ \E key \in ParamKeys :
          /\ prm' = __delitem__(prm, key).self
          /\ calls' = Append(calls, Call("del", key, None, __delitem__(prm, key).res))
    /\ UNCHANGED <<pc, cls, how, arg, data, x, p, y, ydata, q, z, j, clock, uuids, eq>>

\* prm.update(other)
UpdateCall ==
    /\ pc = "open" /\ Len(calls) < 2 + MaxEdits
    /\ \E other \in UpdateMaps :
          /\ prm' = update(prm, other).self
          /\ calls' = Append(calls, Call("update", "", other, update(prm, other).res))
    /\ UNCHANGED <<pc, cls, how, arg, data, x, p, y, ydata, q, z, j, clock, uuids, eq>>

\* prm.clear()
ClearCall ==
    /\ pc = "open" /\ Len(calls) < 2 + MaxEdits
    /\ prm' = clear(prm).self
    /\ calls' = Append(calls, Call("clear", "", None, clear(prm).res))
    /\ UNCHANGED <<pc, cls, how, arg, data, x, p, y, ydata, q, z, j, clock, uuids, eq>>

\* the fields in which two sets of keyword arguments differ
Differing(kw1, kw2) ==
    {n \in Keys(kw1) \cup Keys(kw2) :
        \/ HasKey(kw1, n) # HasKey(kw2, n)
        \/ HasKey(kw1, n) /\ Get(kw1, n) # Get(kw2, n)}

\* x == cls(keyword arguments that differ from x's in at most one field)
Compare ==
    /\ pc = "built"
    /\ how = "init"
    /\ cls \in {"Event", "Envelope"}
    /\ x.t = "obj"
    /\ clock < MaxOps
    /\ \E kw \in Kwargs(cls) :
          /\ Cardinality(Differing(kw, arg)) <= 1
          /\ new(cls, kw, CurEnv).t = "obj"
          /\ eq' = [other |-> new(cls, kw, CurEnv),
                    res |-> dataclass_eq(x, new(cls, kw, CurEnv))]
          /\ uuids' = uuids + uuid4_calls(new(cls, kw, CurEnv), Nil)
    /\ pc' = "compared"
    /\ clock' = clock + 1
    /\ UNCHANGED <<cls, how, arg, data, x, p, y, ydata, q, z, j, prm, calls>>

\* prm == Parameters(initial)
CompareParameters ==
    /\ pc = "open"
    /\ \E initial \in InitialMaps :
          eq' = [other |-> Parameters_init(<<initial>>, Dict(<<>>)),
                 res |-> dataclass_eq(prm, Parameters_init(<<initial>>, Dict(<<>>)))]
    /\ pc' = "compared"
    /\ UNCHANGED <<cls, how, arg, data, x, p, y, ydata, q, z, j, clock, uuids, prm, calls>>

Next ==
    \/ Compare
    \/ CompareParameters
    \/ NewParameters
    \/ SetItemCall
    \/ DelItemCall
    \/ UpdateCall
    \/ ClearCall
    \/ \E c \in Classes : Construct(c)
    \/ \E c \in Classes : FromDict(c)
    \/ Project
    \/ Reconstruct
    \/ Reproject
    \/ Again
    \/ Reuse
    \/ ToJson
    \/ FromJson

Spec == Init /\ [][Next]_vars

(***************************************************************************)
(* Vocabulary of the properties                                            *)
(***************************************************************************)
\* the value the caller supplied for key k: None when the key is left out
Supplied(m, k) == IF HasKey(m, k) THEN Get(m, k) ELSE None
NonNull(m, k) == Supplied(m, k) # None

IsRecord(v) == v.t = "obj"
ValidationError(v) == IsExc(v) /\ v.v = "ValueError"
Failed(v) == IsExc(v)

\* x has been built (or its construction has failed) by the first call
Called == pc # "idle"

\* C3: Span mutual exclusion.  A Span built from arguments in which both
\* startTime and startOffset are non-null fails with a ValueError (from the
\* constructor: the one naming the start forms), and so does one in which
\* both endTime and endOffset are non-null; no Span that exists, built or
\* rebuilt, has both forms of the same bound set.
C3_SpanMutualExclusion ==
    /\ (Called /\ cls = "Span" /\ NonNull(arg, "startTime") /\ NonNull(arg, "startOffset"))
          => /\ ValidationError(x)
             /\ how = "init"
                  => x.msg = "Cannot specify both startTime and startOffset"
    /\ (Called /\ cls = "Span" /\ NonNull(arg, "endTime") /\ NonNull(arg, "endOffset"))
          => ValidationError(x)
    /\ \A r \in {x, y} :
          IsObj(r, "Span")
             => /\ ~(r.f.startTime # None /\ r.f.startOffset # None)
                /\ ~(r.f.endTime # None /\ r.f.endOffset # None)

C3_Witness ==
    /\ cls = "Span" /\ how = "init"
    /\ ~NonNull(arg, "startTime") /\ NonNull(arg, "startOffset")
    /\ NonNull(arg, "endTime") /\ NonNull(arg, "endOffset")
    /\ HasKey(arg, "startTime")
    /\ ValidationError(x) /\ x.msg = "Cannot specify both endTime and endOffset"

\* C4: a Span built with neither start form supplied (key left out or null),
\* by the constructor or by from_dict, fails with a validation error.
C4_SpanNeitherStartFails ==
    (Called /\ cls = "Span" /\ ~NonNull(arg, "startTime") /\ ~NonNull(arg, "startOffset"))
       => ValidationError(x)

\* C5: a Span built from startOffset and endOffset alone, by the constructor
\* or by from_dict, is a record, and its projection has exactly the keys
\* startOffset and endOffset.
C5_SpanOffsetsOnly ==
    (Called /\ cls = "Span" /\ Keys(arg) = {"startOffset", "endOffset"}
        /\ NonNull(arg, "startOffset") /\ NonNull(arg, "endOffset"))
       => /\ IsRecord(x)
          /\ pc = "projected" => (p.t = "dict" /\ Keys(p) = {"startOffset", "endOffset"})

\* C6: the Token constructor succeeds iff exactly one of value and valueUrl
\* is non-null and confidence is null or lies in [0, 1] (0..100 hundredths);
\* the same holds for from_dict of a mapping without a span.
ExactlyOneValue(m) == NonNull(m, "value") # NonNull(m, "valueUrl")
ConfidenceInRange(m) ==
    ~NonNull(m, "confidence")
       \/ (0 <= Supplied(m, "confidence").v /\ Supplied(m, "confidence").v <= 100)

C6_TokenValidation ==
    (Called /\ cls = "Token" /\ (how = "init" \/ ~HasKey(arg, "span")))
       => /\ IsRecord(x) <=> (ExactlyOneValue(arg) /\ ConfidenceInRange(arg))
          /\ ~IsRecord(x) => ValidationError(x)

C6_Witness ==
    /\ cls = "Token" /\ how = "init"
    /\ IsRecord(x) /\ x.f.confidence = Num(100) /\ x.f.valueUrl # None

\* C7: the Feature constructor succeeds iff encoding is null or one of
\* "ISO-8859-1" and "UTF-8"; a Feature built or rebuilt without a mimeType
\* key has mimeType "text/plain" in its field and in its projection.
C7_FeatureEncodingAndMime ==
    /\ (Called /\ cls = "Feature" /\ how = "init")
          => /\ IsRecord(x) <=>
                   (~NonNull(arg, "encoding")
                      \/ Supplied(arg, "encoding") \in {Str("ISO-8859-1"), Str("UTF-8")})
             /\ ~IsRecord(x) => ValidationError(x)
    /\ (cls = "Feature" /\ IsRecord(x) /\ ~HasKey(arg, "mimeType"))
          => /\ x.f.mimeType = Str("text/plain")
             /\ pc = "projected"
                  => (p.t = "dict" /\ Supplied(p, "mimeType") = Str("text/plain"))

C7_Witness ==
    /\ cls = "Feature" /\ how = "init" /\ pc = "projected"
    /\ Supplied(arg, "encoding") = Str("UTF-8") /\ ~HasKey(arg, "mimeType")
    /\ p.t = "dict" /\ Supplied(p, "mimeType") = Str("text/plain")

\* C8: every DialogEvent that exists, built or rebuilt, has at least one
\* feature; building one from arguments whose features are left out or empty
\* fails; the constructor given id, speakerUri, span and one feature succeeds.
NoFeatures(m) == ~HasKey(m, "features") \/ ~Truthy(Get(m, "features"))

C8_DialogEventHasFeature ==
    /\ \A r \in {x, y} :
          IsObj(r, "DialogEvent")
             => (r.f.features.t = "dict" /\ Len(r.f.features.v) >= 1)
    /\ (Called /\ cls = "DialogEvent" /\ NoFeatures(arg)) => Failed(x)
    /\ (Called /\ cls = "DialogEvent" /\ how = "init"
          /\ DialogEvent_required \subseteq Keys(arg)
          /\ ~NoFeatures(arg))
          => IsRecord(x)

C8_Witness ==
    /\ cls = "DialogEvent" /\ how = "from_dict"
    /\ HasKey(arg, "features") /\ Get(arg, "features") = Dict(<<>>)
    /\ ValidationError(x)
    /\ x.msg = "Dialog event must contain at least one feature"

\* the fields of class c in the order the class declares them
Fields(c) ==
    CASE c = "Span" -> Span_fields
      [] c = "Token" -> Token_fields
      [] c = "Feature" -> Feature_fields
      [] c = "DialogEvent" -> DialogEvent_fields
      [] c = "Identification" -> Identification_fields
      [] c = "SupportedLayers" -> SupportedLayers_fields
      [] c = "Capability" -> Capability_fields
      [] c = "Manifest" -> Manifest_fields
      [] c = "Schema" -> Schema_fields
      [] c = "Conversant" -> Conversant_fields
      [] c = "Conversation" -> Conversation_fields
      [] c = "Sender" -> Sender_fields
      [] c = "To" -> To_fields
      [] c = "Event" -> Event_fields
      [] c = "Envelope" -> Envelope_fields

\* the (record, projection) pairs a state holds
Projections == {pr \in {<<x, p>>, <<y, q>>} : IsRecord(pr[1]) /\ pr[2].t = "dict"}

\* C9: optional-field omission.  In the projection of a record each optional
\* scalar field is a key iff the field is non-null; when present the key
\* carries the field's value (a datetime as its ISO text, a nested record as
\* its own projection), which is never null.
OptionalFields(c) ==
    CASE c = "Span" -> {"endTime", "endOffset"}
      [] c = "Token" -> {"span", "confidence"}
      [] c = "Feature" -> {"lang", "encoding", "tokenSchema"}
      [] c = "DialogEvent" -> {"previousId", "context"}
      [] c = "Identification" ->
            {"organization", "conversationalName", "department", "role", "synopsis"}
      [] c = "Schema" -> {"url"}
      [] c = "Sender" -> {"serviceUrl"}
      [] c = "To" -> {"speakerUri", "serviceUrl"}
      [] c = "Event" -> {"to", "reason"}
      [] c = "Capability" -> {"languages"}
      [] OTHER -> {}

Carried(v) ==
    CASE v.t = "datetime" -> Str(v.v)
      [] v.t = "obj" -> dict_of(v)
      [] OTHER -> v

C9_OptionalOmission ==
    \A pr \in Projections :
       \A k \in OptionalFields(pr[1].cls) :
          /\ HasKey(pr[2], k) <=> pr[1].f[k] # None
          /\ HasKey(pr[2], k)
               => (Get(pr[2], k) = Carried(pr[1].f[k]) /\ Get(pr[2], k) # None)

C9_Witness ==
    /\ pc = "projected" /\ cls = "Token" /\ p.t = "dict"
    /\ x.f.confidence = Num(0) /\ Supplied(p, "confidence") = Num(0)
    /\ x.f.span = None /\ ~HasKey(p, "span")

\* C10: projection order.  The keys of a projection come in the order the
\* record type declares its fields, whatever the order of the keyword
\* arguments or of the keys of the mapping the record was built from.
Index(order, k) == CHOOSE n \in 1..Len(order) : order[n] = k

InOrder(keys, order) ==
    /\ \A i \in 1..Len(keys) : keys[i] \in SeqToSet(order)
    /\ \A i, k \in 1..Len(keys) :
          i < k => Index(order, keys[i]) < Index(order, keys[k])

C10_DeclarationOrder ==
    \A pr \in Projections : InOrder(KeySeq(pr[2]), Fields(pr[1].cls))

\* C10 as amended: every record type projects in declaration order except
\* Envelope, which declares conversation, sender, schema, events and
\* projects schema, conversation, sender, events.
EmittedOrder(c) ==
    IF c = "Envelope" THEN <<"schema", "conversation", "sender", "events">>
    ELSE Fields(c)

C10_ProjectionOrder ==
    /\ \A pr \in Projections : InOrder(KeySeq(pr[2]), EmittedOrder(pr[1].cls))
    /\ Envelope_fields = <<"conversation", "sender", "schema", "events">>

C10_Witness ==
    /\ pc = "projected" /\ cls = "Envelope" /\ how = "from_dict"
    /\ KeySeq(arg) = <<"events", "sender", "conversation", "schema">>
    /\ p.t = "dict"
    /\ KeySeq(p) = <<"schema", "conversation", "sender", "events">>

\* C1: round-trip fidelity.  The projection of a record exists; from_dict of
\* the projection, and from_json of the JSON text of the record, succeed and
\* give a record equal (==) to the original; an Envelope built without a
\* schema comes back with schema.version "1.0.0".
C1_RoundTrip ==
    /\ pc = "projected" => p.t = "dict"
    /\ pc = "encoded" => IsJson(j)
    /\ pc \in {"reconstructed", "decoded"}
          => (IsRecord(y) /\ dataclass_eq(y, x))
    /\ (pc \in {"reconstructed", "decoded"} /\ cls = "Envelope"
          /\ ~HasKey(arg, "schema"))
          => (IsRecord(y) /\ y.f.schema.f.version = Str("1.0.0"))

(***************************************************************************)
(* C2: canonicalization.  The expected projection of a record rebuilt from *)
(* a mapping m is described key by key, from m alone.                      *)
(***************************************************************************)
\* the environment of the first call of a run
FirstEnv == [now |-> NowAt(1), uuid |-> Uuid4(1)]

\* optional keys: left out of the projection when null ...
NullOmitted(c) ==
    CASE c = "Span" -> {"startTime", "startOffset", "endTime", "endOffset"}
      [] c = "Token" -> {"value", "valueUrl", "span", "confidence"}
      [] c = "Capability" -> {"languages"}
      [] OTHER -> OptionalFields(c)

\* ... or when empty (a list or map without entries)
EmptyOmitted(c) ==
    CASE c = "Token" -> {"links"}
      [] c = "Feature" -> {"alternates"}
      [] c = "Conversant" -> {"persistentState"}
      [] c = "Conversation" -> {"conversants"}
      [] c = "Event" -> {"parameters"}
      [] c = "Envelope" -> {"events"}
      [] OTHER -> {}

IsEmpty(v) == v = None \/ (v.t \in {"list", "dict"} /\ Len(v.v) = 0)

\* the canonical form of a nested mapping: the projection of the record it
\* reconstructs into
Canon1(c, v) == dict_of(from_dict(c, v, FirstEnv).res)
CanonList(c, v) == List([i \in 1..Len(v.v) |-> Canon1(c, v.v[i])])
CanonMap(c, v) == Dict([i \in 1..Len(v.v) |-> <<v.v[i][1], Canon1(c, v.v[i][2])>>])

Nested(c, k, v) ==
    CASE c = "Token" /\ k = "span" -> Canon1("Span", v)
      [] c = "Feature" /\ k = "tokens" -> CanonList("Token", v)
      [] c = "Feature" /\ k = "alternates" ->
            List([i \in 1..Len(v.v) |-> CanonList("Token", v.v[i])])
      [] c = "DialogEvent" /\ k = "span" -> Canon1("Span", v)
      [] c = "DialogEvent" /\ k = "features" -> CanonMap("Feature", v)
      [] c = "Capability" /\ k = "supportedLayers" -> Canon1("SupportedLayers", v)
      [] c = "Manifest" /\ k = "identification" -> Canon1("Identification", v)
      [] c = "Manifest" /\ k = "capabilities" -> CanonList("Capability", v)
      [] c = "Conversant" /\ k = "identification" -> Canon1("Identification", v)
      [] c = "Conversation" /\ k = "conversants" -> CanonList("Conversant", v)
      [] c = "Event" /\ k = "to" -> Canon1("To", v)
      [] c = "Envelope" /\ k = "schema" -> Canon1("Schema", v)
      [] c = "Envelope" /\ k = "conversation" -> Canon1("Conversation", v)
      [] c = "Envelope" /\ k = "sender" -> Canon1("Sender", v)
      [] c = "Envelope" /\ k = "events" -> CanonList("Event", v)
      [] OTHER -> v

\* the mappings the claim is about: those from_dict turned into a record
\* whose projection exists
Canonicalized == how = "from_dict" /\ IsRecord(x) /\ p.t = "dict"

Dropped(c, k, v) ==
    \/ k \in NullOmitted(c) /\ v = None
    \/ k \in EmptyOmitted(c) /\ IsEmpty(v)
    \/ c = "To" /\ k = "private" /\ v \in {None, Bool(FALSE)}

DefaultLayers == D2("input", List(<<Str("text")>>), "output", List(<<Str("text")>>))

Defaulted(c) ==
    CASE c = "Span" -> [startTime |-> Str(FirstEnv.now)]
      [] c = "Feature" -> [mimeType |-> Str("text/plain"), tokens |-> List(<<>>)]
      [] c = "Schema" -> [version |-> Str("1.0.0")]
      [] c = "Conversation" -> [id |-> Str("conv:" \o FirstEnv.uuid)]
      [] c = "Capability" -> [supportedLayers |-> DefaultLayers]
      [] c = "SupportedLayers" ->
            [input |-> List(<<Str("text")>>), output |-> List(<<Str("text")>>)]
      [] c = "Envelope" -> [schema |-> D1("version", Str("1.0.0"))]
      [] OTHER -> <<>>

CanonValue(c, k, v) ==
    CASE c = "Span" /\ k = "endTime" /\ v.t = "str" -> isoformat(fromisoformat(v.v))
      [] c = "Schema" /\ k = "version" /\ v = None -> Str("1.0.0")
      [] c = "Conversation" /\ k = "id" /\ v = None -> Str("conv:" \o FirstEnv.uuid)
      [] OTHER -> Nested(c, k, v)

AutoId(v) == \E n \in 1..MaxOps : v = Str("conv:" \o Uuid4(n))

C11_ConversationId ==
    /\ (cls = "Conversation" /\ IsRecord(x)) =>
          /\ x.f.id # None
          /\ IF NonNull(arg, "id") THEN x.f.id = Get(arg, "id") ELSE AutoId(x.f.id)
          /\ (pc = "twice" /\ IsRecord(z)) =>
                IF NonNull(arg, "id") THEN z.f.id = x.f.id
                ELSE AutoId(z.f.id) /\ z.f.id # x.f.id
          /\ pc \in {"projected", "reconstructed", "reprojected"} =>
                (p.t = "dict" /\ Supplied(p, "id") = x.f.id)
          /\ (pc = "reconstructed" /\ IsRecord(y)) => y.f.id = x.f.id
    /\ (cls = "Envelope" /\ how = "from_dict" /\ IsRecord(x)) =>
          LET m == Get(arg, "conversation")
          IN  /\ x.f.conversation.f.id # None
              /\ IF NonNull(m, "id") THEN x.f.conversation.f.id = Get(m, "id")
                 ELSE AutoId(x.f.conversation.f.id)
              /\ (pc = "twice" /\ IsRecord(z) /\ ~NonNull(m, "id")) =>
                    z.f.conversation.f.id # x.f.conversation.f.id

C11_Witness ==
    /\ pc = "twice" /\ cls = "Conversation" /\ ~NonNull(arg, "id")
    /\ IsRecord(x) /\ IsRecord(z)
    /\ x.f.id = Str("conv:" \o Uuid4(1)) /\ z.f.id = Str("conv:" \o Uuid4(2))

\* C12: Schema version default.  A Schema built or rebuilt with version left
\* out or null has version "1.0.0", a non-null version is kept; the
\* projection always has the version key with the field's value.  The schema
\* of an Envelope built without one, or rebuilt from a schema mapping without
\* a non-null version, has version "1.0.0" in the field and in the projection.
C12_SchemaVersionDefault ==
    /\ (Called /\ cls = "Schema") =>
          /\ IsRecord(x)
          /\ x.f.version = IF NonNull(arg, "version") THEN Get(arg, "version")
                           ELSE Str("1.0.0")
          /\ pc = "projected" =>
                (p.t = "dict" /\ HasKey(p, "version")
                   /\ Get(p, "version") = x.f.version)
          /\ pc = "reconstructed" => (IsRecord(y) /\ y.f.version = x.f.version)
    /\ (cls = "Envelope" /\ IsRecord(x)) =>
          LET given == IF how = "init" THEN dict_of(Supplied(arg, "schema"))
                       ELSE Supplied(arg, "schema")
              want == IF HasKey(arg, "schema") /\ NonNull(given, "version")
                      THEN Get(given, "version") ELSE Str("1.0.0")
          IN  /\ x.f.schema.f.version = want
              /\ (pc = "projected" /\ p.t = "dict") =>
                    Supplied(Supplied(p, "schema"), "version") = want

C12_Witness ==
    /\ pc = "projected" /\ cls = "Schema" /\ how = "init"
    /\ HasKey(arg, "version") /\ Get(arg, "version") = None
    /\ x.f.version = Str("1.0.0")
    /\ p.t = "dict" /\ Supplied(p, "version") = Str("1.0.0")

\* C13: a Capability built without supportedLayers (key left out or null), by
\* the constructor or by from_dict, is a record that holds the default layers
\* from construction on, and its projection carries supportedLayers equal to
\* {input: ["text"], output: ["text"]}.
C13_CapabilityDefaultLayers ==
    (Called /\ cls = "Capability" /\ ~NonNull(arg, "supportedLayers")
        /\ NonNull(arg, "keyphrases") /\ NonNull(arg, "descriptions"))
       => /\ IsRecord(x)
          /\ IsRecord(x.f.supportedLayers)
          /\ dict_of(x.f.supportedLayers) = DefaultLayers
          /\ pc = "projected" =>
                (p.t = "dict" /\ Supplied(p, "supportedLayers") = DefaultLayers)

\* C14: an Identification built, by the constructor or by from_dict, from
\* arguments in which speakerUri or serviceUrl is null or left out fails with
\* an error whatever the optional fields are; an Identification that exists
\* after the call has non-null speakerUri and serviceUrl.
C14_IdentificationRequired ==
    (Called /\ cls = "Identification") =>
       /\ (~NonNull(arg, "speakerUri") \/ ~NonNull(arg, "serviceUrl")) => Failed(x)
       /\ IsRecord(x) => (x.f.speakerUri # None /\ x.f.serviceUrl # None)

C14_Witness ==
    /\ cls = "Identification" /\ how = "from_dict"
    /\ NonNull(arg, "speakerUri") /\ HasKey(arg, "serviceUrl")
    /\ ~NonNull(arg, "serviceUrl") /\ NonNull(arg, "organization")
    /\ ValidationError(x)

\* C15: building a To, by the constructor or by from_dict, fails exactly when
\* speakerUri and serviceUrl are both null or left out, whatever private is;
\* private is false when not given, and the projection has the key private
\* only when it is true.
C15_ToAddressing ==
    (Called /\ cls = "To") =>
       /\ Failed(x) <=> (~NonNull(arg, "speakerUri") /\ ~NonNull(arg, "serviceUrl"))
       /\ (IsRecord(x) /\ ~HasKey(arg, "private")) => x.f.private = Bool(FALSE)
       /\ (pc = "projected" /\ IsRecord(x)) =>
             /\ p.t = "dict"
             /\ HasKey(p, "private") <=> x.f.private = Bool(TRUE)
             /\ HasKey(p, "private") => Get(p, "private") = Bool(TRUE)

C15_Witness ==
    /\ cls = "To" /\ pc = "projected" /\ IsRecord(x)
    /\ ~NonNull(arg, "speakerUri") /\ NonNull(arg, "serviceUrl")
    /\ Supplied(arg, "private") = Bool(TRUE)
    /\ Keys(p) = {"serviceUrl", "private"}

\* the fields of class c that have no default
RequiredKeys(c) ==
    CASE c = "DialogEvent" -> DialogEvent_required
      [] c = "Identification" -> Identification_required
      [] c = "Capability" -> Capability_required
      [] c = "Manifest" -> Manifest_required
      [] c = "Conversant" -> Conversant_required
      [] c = "Sender" -> Sender_required
      [] c = "Event" -> Event_required
      [] c = "Envelope" -> Envelope_required
      [] OTHER -> {}

\* C16: from_dict of any record class, given a mapping that lacks a required
\* key, or a Sender mapping whose speakerUri is not a string (null, an object),
\* or a Conversant mapping whose persistentState is not a mapping, fails with
\* an error and returns no record.
C16_MalformedRejected ==
    (Called /\ how = "from_dict") =>
       /\ (\E k \in RequiredKeys(cls) : ~HasKey(arg, k)) => Failed(x)
       /\ (cls = "Sender" /\ HasKey(arg, "speakerUri")
             /\ Get(arg, "speakerUri").t # "str") => Failed(x)
       /\ (cls = "Conversant" /\ HasKey(arg, "persistentState")
             /\ Get(arg, "persistentState").t # "dict") => Failed(x)

\* the mappings a mapping m of class c holds in its record-typed fields, each
\* with the class that reconstructs it
One(m, k, c) ==
    IF HasKey(m, k) /\ Get(m, k).t = "dict" THEN {<<c, Get(m, k)>>} ELSE {}

Each(m, k, c) ==
    IF HasKey(m, k) /\ Get(m, k).t \in {"list", "dict"}
    THEN {<<c, Get(m, k).v[i][2]>> : i \in {n \in 1..Len(Get(m, k).v) : Get(m, k).t = "dict"}}
         \cup {<<c, Get(m, k).v[i]>> : i \in {n \in 1..Len(Get(m, k).v) : Get(m, k).t = "list"}}
    ELSE {}

Each2(m, k, c) ==
    IF HasKey(m, k) /\ Get(m, k).t = "list"
    THEN UNION {Each(D1(k, Get(m, k).v[i]), k, c) : i \in 1..Len(Get(m, k).v)}
    ELSE {}

Children(c, m) ==
    CASE c = "Token" -> One(m, "span", "Span")
      [] c = "Feature" -> Each(m, "tokens", "Token") \cup Each2(m, "alternates", "Token")
      [] c = "DialogEvent" -> One(m, "span", "Span") \cup Each(m, "features", "Feature")
      [] c = "Capability" -> One(m, "supportedLayers", "SupportedLayers")
      [] c = "Manifest" ->
           One(m, "identification", "Identification") \cup Each(m, "capabilities", "Capability")
      [] c = "Conversant" -> One(m, "identification", "Identification")
      [] c = "Conversation" -> Each(m, "conversants", "Conversant")
      [] c = "Event" -> One(m, "to", "To")
      [] c = "Envelope" ->
           One(m, "schema", "Schema") \cup One(m, "conversation", "Conversation")
           \cup One(m, "sender", "Sender") \cup Each(m, "events", "Event")
      [] OTHER -> {}

RECURSIVE NestedMaps(_, _)
NestedMaps(c, m) ==
    IF m.t # "dict" THEN {}
    ELSE Children(c, m) \cup UNION {NestedMaps(pr[1], pr[2]) : pr \in Children(c, m)}

\* what reconstructing the nested mapping pr on its own raises, if anything
Rejected(pr) == IsExc(from_dict(pr[1], pr[2], FirstEnv).res)

RECURSIVE Unsupported(_)
Unsupported(v) ==
    CASE v.t \in {"set", "object"} -> {v}
      [] v.t = "list" -> UNION {Unsupported(v.v[i]) : i \in 1..Len(v.v)}
      [] v.t = "dict" -> UNION {Unsupported(v.v[i][2]) : i \in 1..Len(v.v)}
      [] v.t = "obj" -> UNION {Unsupported(v.f[n]) : n \in DOMAIN v.f}
      [] OTHER -> {}

\* C18: when a record holds, at any depth, a value that is neither a record,
\* a list, a map nor a JSON primitive (a set, an arbitrary object), to_json
\* returns no JSON text: it fails with a TypeError naming the type of such a
\* value.
C18_UnsupportedAborts ==
    (pc \in {"encoded", "decoded"} /\ Unsupported(x) # {}) =>
       /\ IsExc(j) /\ j.v = "TypeError"
       /\ \E u \in Unsupported(x) :
             j.msg = "Object of type " \o TypeName(u) \o " is not JSON serializable"

\* the open map a record holds: Event parameters, Conversant persistentState
OpenMapKey(c) == IF c = "Event" THEN "parameters" ELSE "persistentState"

OpenMap(r) ==
    IF IsObj(r, "Event") /\ IsObj(r.f.parameters, "Parameters")
    THEN r.f.parameters.f._data
    ELSE IF IsObj(r, "Conversant") /\ r.f.persistentState.t = "dict"
    THEN r.f.persistentState
    ELSE Dict(<<>>)

\* member k of a JSON object
JMember(n, k) ==
    IF n.t = "jobject" /\ HasKey(n, k) THEN Get(n, k) ELSE JNode("jnull", "absent")

\* C19: when an Event's parameters or a Conversant's persistentState holds a
\* record as a value, to_json of the Event or Conversant emits, under that
\* key, the JSON object that spells the record's own projection.
C19_UniformEncoding ==
    (pc \in {"encoded", "decoded"} /\ Unsupported(x) = {}) =>
       \A i \in 1..Len(OpenMap(x).v) :
          LET k == OpenMap(x).v[i][1]
              r == OpenMap(x).v[i][2]
          IN  IsRecord(r) =>
                /\ IsJson(j)
                /\ JMember(JMember(j, OpenMapKey(cls)), k).t = "jobject"
                /\ JMember(JMember(j, OpenMapKey(cls)), k) = json_dumps(dict_of(r), FALSE)

\* the calls on prm as single events: (put, key, value) for an assignment,
\* (drop, key) for a deletion, (wipe) for clear; update assigns the items of
\* its argument in order
Atoms(c) ==
    CASE c.op = "set" -> <<[a |-> "put", k |-> c.k, v |-> c.v]>>
      [] c.op = "update" ->
           [i \in 1..Len(c.v.v) |-> [a |-> "put", k |-> c.v.v[i][1], v |-> c.v.v[i][2]]]
      [] c.op = "del" -> <<[a |-> "drop", k |-> c.k, v |-> None]>>
      [] c.op = "clear" -> <<[a |-> "wipe", k |-> "", v |-> None]>>

RECURSIVE Flat(_)
Flat(log) ==
    IF log = <<>> THEN <<>>
    ELSE Flat(SubSeq(log, 1, Len(log) - 1)) \o Atoms(log[Len(log)])

Max(S) == CHOOSE m \in S : \A n \in S : m >= n

\* the last event that removed key (0 when there is none), the assignments
\* to key since then, and the keys that are present
Removed(E, key) ==
    Max({0} \cup {i \in 1..Len(E) : E[i].a = "wipe" \/ (E[i].a = "drop" /\ E[i].k = key)})
Puts(E, key) ==
    {i \in 1..Len(E) : E[i].a = "put" /\ E[i].k = key /\ i > Removed(E, key)}
Present(E) == {key \in ParamKeys : Puts(E, key) # {}}

\* C20: after any sequence of set, update, delete and clear calls on a
\* Parameters created from an initial mapping and keyword arguments, the
\* projection has exactly the keys assigned since they were last removed,
\* each with the value assigned last, ordered by their first assignment since
\* their last removal; len, membership and get agree with that content.
C20_OpenMapContent ==
    pc = "open" =>
       /\ dict_of(prm).t = "dict"
       /\ Keys(dict_of(prm)) = Present(Flat(calls))
       /\ Len(dict_of(prm).v) = Cardinality(Present(Flat(calls)))
       /\ \A key \in Present(Flat(calls)) :
             Get(dict_of(prm), key) = Flat(calls)[Max(Puts(Flat(calls), key))].v
       /\ \A m, n \in 1..Len(dict_of(prm).v) :
             m < n => Min(Puts(Flat(calls), dict_of(prm).v[m][1]))
                        < Min(Puts(Flat(calls), dict_of(prm).v[n][1]))
       /\ __len__(prm) = Cardinality(Present(Flat(calls)))
       /\ \A key \in ParamKeys :
             /\ __contains__(prm, key) <=> key \in Present(Flat(calls))
             /\ get(prm, key, Str("missing")) =
                   IF key \in Present(Flat(calls))
                   THEN Flat(calls)[Max(Puts(Flat(calls), key))].v
                   ELSE Str("missing")

\* a key of the initial mapping deleted and assigned again now comes last,
\* after a key that was re-assigned in place
C20_Witness ==
    /\ pc = "open" /\ Len(calls) = 2 + MaxEdits
    /\ KeySeq(calls[1].v) = <<"a", "b">>
    /\ calls[3].op = "del" /\ calls[3].k = "a" /\ calls[3].res = None
    /\ calls[4].op = "set" /\ calls[4].k = "b" /\ calls[4].v = Num(2)
    /\ calls[5].op = "set" /\ calls[5].k = "a"
    /\ KeySeq(dict_of(prm)) = <<"b", "a">>
    /\ Get(dict_of(prm), "b") = Num(2)

\* C21: from_dict leaves the mapping it is given as it was, whether it
\* returns or fails, so from_dict on the same mapping a second time returns
\* a record equal to the first.
C21_InputUnmodified ==
    (Called /\ how = "from_dict") =>
       /\ data = arg
       /\ (pc = "reused" /\ IsRecord(x)) => (IsRecord(z) /\ dataclass_eq(z, x))

\* C22: two records compare equal only when their projections are equal:
\* two Parameters with different content are unequal, and so are two Events
\* or Envelopes that differ only in the content of an event's parameters.
C22_StructuralEquality ==
    (pc = "compared" /\ eq.res) =>
       IF cls = "none"
       THEN Norm(dict_of(prm)) = Norm(dict_of(eq.other))
       ELSE Norm(dict_of(x)) = Norm(dict_of(eq.other))

====
